---- MODULE Spec2Model ----
(***************************************************************************)
(* A model of the ad-detection engine of the YouTube ad scanner:           *)
(*   SelectorManager   (src/src/detection/selectors.ts)                    *)
(*   AdClassifier      (src/src/detection/classifiers.ts)                  *)
(*   DetectionPipeline (src/src/detection/pipeline.ts)                     *)
(*   ObserverManager   (src/src/detection/observers.ts)                    *)
(*   debounce/throttle (src/src/utils/performance.ts)                      *)
(*   content script    (src/src/content/index.ts, legacy content script)   *)
(*                                                                         *)
(* Numbers.  successRate and confidence are JavaScript doubles in the code;*)
(* here they are fixed-point integers in units of 1/Scale (rounded down    *)
(* after every operation).  Times are milliseconds.                        *)
(***************************************************************************)
EXTENDS Integers, Sequences, FiniteSets, Bags, TLC

VARIABLES
    categories,     \* SelectorManager.categories (insertion-ordered Map)
    streak,         \* history: consecutive recordFailure calls per pattern
    streakRate,     \* history: best successRate of the pattern when the streak began
    healthOps,      \* history: number of registry calls made so far
    now,            \* Date.now()
    attached,       \* the nodes currently in the document
    videoTime,      \* currentTime of the page's video element, or -1 if there is none
    detectionCache, \* AdClassifier.detectionCache
    lastRunTime,    \* DetectionPipeline.lastRunTime
    lastRun,        \* history: what run() did (and appended, and kept), if the last step called it
    lastExec,       \* history: when the last non-throttled run() started (0: none yet)
    loggedUrls,     \* content script: keys already reported
    sent,           \* bag of the messages handed to chrome.runtime.sendMessage
    attempted,      \* history: the (url, source) pairs logAd was called with
    suppressed,     \* history: the pair of the last attempt logAd suppressed
    handedMin,      \* history: least confidence the last step handed to processDetections
    isRunning,            \* ObserverManager.isRunning
    generation,           \* number of start() calls that passed the isRunning test
    mutationObserver,     \* ObserverManager.mutationObserver: its generation, 0 = null
    intersectionObserver, \* ObserverManager.intersectionObserver: its generation, 0 = null
    scanIntervalId,       \* ObserverManager.scanIntervalId: its generation, 0 = null
    connected,            \* browser: the observers not disconnected, as <<kind, generation>>
    intervalT,            \* browser: the setInterval timer of each generation
    debounceT,            \* the debounce closure of each generation and its timer
    throttleT,            \* the throttle closure of each generation and its timer
    sinceExec,            \* history: time since each throttle closure last ran, at most ScanInterval
    notified,             \* history: number of change notifications the page caused
    smallSteps,           \* history: number of short time steps taken
    did,                  \* history: what the last watcher step did
    lastCall,       \* history: the last registry call, the registry before it, its result
    scored,         \* history: the evidence list last scored, and its score
    classified,     \* history: the last direct classify call, the entry before it, its result
    typed,          \* history: the last direct classifyAdType call and its result
    visibleOnly,     \* ObserverManager.options.visibleOnly
    visibleElements, \* ObserverManager.visibleElements
    observing,       \* browser: the targets of the current visibility observer
    startOutcome,    \* history: the host the last start() ran on, and whether it raised
    adLog,          \* background worker: the ad log, newest first
    storedLog,      \* chrome.storage.local: the value stored under 'adLog'
    loadPending,    \* background worker: the callback of the initial storage read has not run
    expected,       \* history: the URLs accepted and since neither evicted by the cap nor cleared
    reply,          \* history: the last message the worker handled and its answer
    playerPage,     \* what the page shows of the video player
    lastState,      \* VideoPlayerObserver.lastState
    intervalId,     \* VideoPlayerObserver.intervalId, 0 = null
    checkTimers,    \* browser: the check timers that are set and not cleared
    timersMade,     \* browser: number of setInterval calls of the observer so far
    checked,        \* history: what the last step of the video player observer did
    pendingReads,   \* BatchOperations.pendingReads
    pendingWrites,  \* BatchOperations.pendingWrites
    scheduled,      \* BatchOperations.scheduled
    frameRequests,  \* browser: requested animation frame callbacks not yet run
    batchCalls,     \* number of read() and write() calls from outside a flush so far
    batchRun,       \* history: ids of the operations that have run
    flushOrder      \* history: the operations the last flush ran, in order

regVars == <<categories, streak, streakRate, healthOps>>

callVars == <<lastCall, scored>>

classVars == <<classified, typed>>

visVars == <<visibleOnly, visibleElements, observing, startOutcome>>

docVars == <<now, attached, videoTime>>

pipeVars == <<detectionCache, lastRunTime, lastRun, lastExec>>

reportVars == <<loggedUrls, sent, attempted, suppressed, handedMin>>

watchVars ==
    <<isRunning, generation, mutationObserver, intersectionObserver, scanIntervalId,
      connected, intervalT, debounceT, throttleT, sinceExec, notified, smallSteps, did>>

bgVars == <<adLog, storedLog, loadPending, expected, reply>>

\* the components beside the detection engine
playerVars == <<playerPage, lastState, intervalId, checkTimers, timersMade, checked>>

batchVars ==
    <<pendingReads, pendingWrites, scheduled, frameRequests, batchCalls, batchRun, flushOrder>>

sideVars == <<bgVars, playerVars, batchVars>>

\* the detection engine and the content script
engineVars ==
    <<regVars, callVars, classVars, visVars, docVars, pipeVars, reportVars, watchVars>>

vars ==
    <<regVars, callVars, classVars, visVars, docVars, pipeVars, reportVars, watchVars,
      sideVars>>

(***************************************************************************)
(* Generic helpers                                                         *)
(***************************************************************************)
Scale == 10^6

Min(a, b) == IF a <= b THEN a ELSE b

Max(a, b) == IF a >= b THEN a ELSE b

Range(s) == {s[i] : i \in 1..Len(s)}

RECURSIVE SeqSum(_)
SeqSum(s) == IF s = <<>> THEN 0 ELSE Head(s) + SeqSum(Tail(s))

\* String.prototype.startsWith
StartsWith(a, p) == Len(a) >= Len(p) /\ SubSeq(a, 1, Len(p)) = p

\* String.prototype.endsWith
EndsWith(a, p) == Len(a) >= Len(p) /\ SubSeq(a, Len(a) - Len(p) + 1, Len(a)) = p

\* String.prototype.includes
Includes(a, p) ==
    \E i \in 1..(Len(a) - Len(p) + 1) : SubSeq(a, i, i + Len(p) - 1) = p

(***************************************************************************)
(* The document: a small fixed population of nodes.  What a node is (tag,  *)
(* attributes, children) is fixed; whether it is attached is state.        *)
(***************************************************************************)
NoValue == "<none>"

Nodes == {"feedAd", "adBox", "svgIcon"}

NodeInfo ==
    [n \in Nodes |->
        CASE n = "feedAd" ->
               [tag |-> "ytd-in-feed-ad-layout-renderer", html |-> TRUE,
                className |-> "", ariaLabel |-> "sketchy-deals.xyz",
                dataUrl |-> NoValue, dataAdId |-> NoValue, zIndex |-> 0,
                links |-> <<>>, images |-> <<>>, parent |-> NoValue]
          [] n = "adBox" ->
               [tag |-> "div", html |-> TRUE,
                className |-> "ad-box", ariaLabel |-> NoValue,
                dataUrl |-> "https://shop.example/deal", dataAdId |-> "7", zIndex |-> 0,
                links |-> <<"https://shop.example/buy">>,
                images |-> <<"https://i.ytimg.com/vi/thumb.jpg">>,
                parent |-> "feedAd"]
          [] OTHER ->
               \* an SVG element with an inline z-index: not an HTMLElement,
               \* and its className is an SVGAnimatedString, not a string
               [tag |-> "svg", html |-> FALSE,
                className |-> NoValue, ariaLabel |-> NoValue,
                dataUrl |-> NoValue, dataAdId |-> "9", zIndex |-> 2000,
                links |-> <<>>, images |-> <<>>, parent |-> NoValue]]

\* document order
NodeOrder == <<"feedAd", "adBox", "svgIcon">>

(***************************************************************************)
(* The document tree accessor (browser): Element.matches and               *)
(* querySelectorAll.  A malformed pattern makes both raise.                *)
(***************************************************************************)
BadPattern == "div[["

ExtraPattern == "[data-url]"

IsMalformed(selector) == selector = BadPattern

\* element.classList (the modelled nodes carry at most one class)
ClassList(n) ==
    IF NodeInfo[n].className \in {NoValue, ""} THEN {} ELSE {NodeInfo[n].className}

\* Element.matches(selector), for a well-formed selector
ElementMatches(n, selector) ==
    CASE selector = "[data-ad-id]" -> NodeInfo[n].dataAdId # NoValue
      [] selector = "[aria-label*=\"Ad\"]" ->
             NodeInfo[n].ariaLabel # NoValue /\ Includes(NodeInfo[n].ariaLabel, "Ad")
      [] selector = "[style*=\"z-index\"]" -> NodeInfo[n].zIndex # 0
      [] StartsWith(selector, ".") ->
             SubSeq(selector, 2, Len(selector)) \in ClassList(n)
      [] selector = "[data-url]" -> NodeInfo[n].dataUrl # NoValue
      [] selector = "[data-ad-slot]" -> FALSE
      [] selector = "[data-google-query-id]" -> FALSE
      [] OTHER -> NodeInfo[n].tag = selector

(***************************************************************************)
(* SelectorManager                                                         *)
(***************************************************************************)
MaxFailures == 5

MinSuccessRate == (3 * Scale) \div 10

Entry(selector, priority, successRate, failureCount) ==
    [selector |-> selector, priority |-> priority,
     successRate |-> successRate, failureCount |-> failureCount]

\* initializeDefaultSelectors: the categories of the default catalog whose
\* patterns the modelled document can match (the others never change).
DefaultCategories ==
    << [name |-> "in-feed-ads",
        selectors |-> << Entry("ytd-in-feed-ad-layout-renderer", 1, Scale, 0),
                         Entry("ytd-ad-inline-playback-renderer", 2, Scale, 0) >>],
       [name |-> "data-attributes",
        selectors |-> << Entry("[data-ad-id]", 1, (9 * Scale) \div 10, 0),
                         Entry("[data-ad-slot]", 2, (9 * Scale) \div 10, 0),
                         Entry("[data-google-query-id]", 3, (8 * Scale) \div 10, 0) >>] >>

CategoryIndex(cats, name) ==
    IF \E i \in 1..Len(cats) : cats[i].name = name
    THEN CHOOSE i \in 1..Len(cats) : cats[i].name = name
    ELSE 0

\* addCategory: Map.set keeps the position of an existing key
addCategory(cats, name, selectors) ==
    LET i == CategoryIndex(cats, name)
        c == [name |-> name, selectors |-> selectors]
    IN  IF i = 0 THEN Append(cats, c) ELSE [cats EXCEPT ![i] = c]

\* an activity test that is off by one on the failure count
IsActiveConfigOffByOne(config) ==
    config.failureCount <= MaxFailures /\ config.successRate >= MinSuccessRate

IsActiveConfig(config) ==
    config.failureCount < MaxFailures /\ config.successRate >= MinSuccessRate

\* a comparison the wrong way round
ScoreLess(a, b) == a.successRate * b.priority < b.successRate * a.priority

\* score a > score b, for score = successRate * (1 / priority)
ScoreGreater(a, b) == a.successRate * b.priority > b.successRate * a.priority

\* Array.prototype.sort((a, b) => b.score - a.score): stable, descending
RECURSIVE InsertByScore(_, _)
InsertByScore(sorted, c) ==
    IF sorted = <<>> THEN <<c>>
    ELSE IF ScoreGreater(c, Head(sorted)) THEN <<c>> \o sorted
    ELSE <<Head(sorted)>> \o InsertByScore(Tail(sorted), c)

RECURSIVE SortByScore(_)
SortByScore(s) ==
    IF s = <<>> THEN <<>>
    ELSE InsertByScore(SortByScore(SubSeq(s, 1, Len(s) - 1)), s[Len(s)])

\* Array.prototype.filter with the activity test
RECURSIVE ActiveConfigs(_)
ActiveConfigs(configs) ==
    IF configs = <<>> THEN <<>>
    ELSE (IF IsActiveConfig(Head(configs)) THEN <<Head(configs)>> ELSE <<>>)
         \o ActiveConfigs(Tail(configs))

RECURSIVE AllConfigs(_)
AllConfigs(cats) ==
    IF cats = <<>> THEN <<>> ELSE Head(cats).selectors \o AllConfigs(Tail(cats))

SelectorsOf(configs) == [i \in 1..Len(configs) |-> configs[i].selector]

getAllActiveSelectors(cats) ==
    SelectorsOf(SortByScore(ActiveConfigs(AllConfigs(cats))))

getCategorySelectors(cats, categoryName) ==
    LET i == CategoryIndex(cats, categoryName)
    IN  IF i = 0 THEN <<>>
        ELSE SelectorsOf(SortByScore(ActiveConfigs(cats[i].selectors)))

\* Array.prototype.find: the index of the first entry with this pattern, or 0
FindIndex(configs, selector) ==
    IF \E i \in 1..Len(configs) : configs[i].selector = selector
    THEN CHOOSE i \in 1..Len(configs) :
            /\ configs[i].selector = selector
            /\ \A j \in 1..(i - 1) : configs[j].selector # selector
    ELSE 0

\* a recordSuccess without the cap at 1
SuccessUpdateNoCap(config) ==
    [config EXCEPT !.successRate = (config.successRate * 11) \div 10,
                   !.failureCount = Max(0, config.failureCount - 1)]

\* a recordSuccess that clears the counter
SuccessUpdateClearsCount(config) ==
    [config EXCEPT !.successRate = Min(Scale, (config.successRate * 11) \div 10),
                   !.failureCount = 0]

SuccessUpdate(config) ==
    [config EXCEPT !.successRate = Min(Scale, (config.successRate * 11) \div 10),
                   !.failureCount = Max(0, config.failureCount - 1)]

\* a recordFailure that forgets the counter
FailureUpdateKeepsCount(config) ==
    [config EXCEPT !.successRate = (config.successRate * 9) \div 10]

FailureUpdate(config) ==
    [config EXCEPT !.failureCount = config.failureCount + 1,
                   !.successRate = (config.successRate * 9) \div 10]

recordSuccess(cats, selector) ==
    [c \in 1..Len(cats) |->
        LET i == FindIndex(cats[c].selectors, selector)
        IN  IF i = 0 THEN cats[c]
            ELSE [cats[c] EXCEPT !.selectors[i] = SuccessUpdate(cats[c].selectors[i])]]

recordFailure(cats, selector) ==
    [c \in 1..Len(cats) |->
        LET i == FindIndex(cats[c].selectors, selector)
        IN  IF i = 0 THEN cats[c]
            ELSE [cats[c] EXCEPT !.selectors[i] = FailureUpdate(cats[c].selectors[i])]]

\* an addSelector without the test for an existing entry
addSelectorAlways(cats, category, selector, priority) ==
    LET i == CategoryIndex(cats, category)
        fresh == Entry(selector, priority, Scale \div 2, 0)
    IN  IF i # 0
        THEN [cats EXCEPT ![i].selectors = Append(cats[i].selectors, fresh)]
        ELSE addCategory(cats, category, <<fresh>>)

addSelector(cats, category, selector, priority) ==
    LET i == CategoryIndex(cats, category)
        fresh == Entry(selector, priority, Scale \div 2, 0)
    IN  IF i # 0
        THEN IF FindIndex(cats[i].selectors, selector) = 0
             THEN [cats EXCEPT ![i].selectors = Append(cats[i].selectors, fresh)]
             ELSE cats
        ELSE addCategory(cats, category, <<fresh>>)

\* an update that replaces the category by fresh entries
AddSelectorsFresh(cats, categoryName, selectors, index) ==
    addCategory(cats, categoryName,
                [k \in 1..Len(selectors) |-> Entry(selectors[k], k, Scale \div 2, 0)])

\* updateFromConfig: config is a sequence of [name, selectors] pairs
RECURSIVE AddSelectorsFrom(_, _, _, _)
AddSelectorsFrom(cats, categoryName, selectors, index) ==
    IF index > Len(selectors) THEN cats
    ELSE AddSelectorsFrom(addSelector(cats, categoryName, selectors[index], index),
                          categoryName, selectors, index + 1)

RECURSIVE updateFromConfig(_, _)
updateFromConfig(cats, config) ==
    IF config = <<>> THEN cats
    ELSE updateFromConfig(
            AddSelectorsFrom(cats, Head(config).name, Head(config).selectors, 1),
            Tail(config))

\* the catch branch of matchesAnySelector was taken for selector before the
\* loop went on to the result rest (raised is history, not returned)
Caught(selector, rest) == [rest EXCEPT !.raised = <<selector>> \o @]

\* matchesAnySelector: returns [cats, matched, selector, category]
RECURSIVE MatchFrom(_, _, _, _)
MatchFrom(cats, n, c, i) ==
    IF c > Len(cats)
    THEN [cats |-> cats, matched |-> FALSE, selector |-> NoValue, category |-> NoValue,
          raised |-> <<>>]
    ELSE IF i > Len(cats[c].selectors) THEN MatchFrom(cats, n, c + 1, 1)
    ELSE LET config == cats[c].selectors[i]
         IN  IF config.failureCount < MaxFailures
             THEN IF IsMalformed(config.selector)
                  THEN Caught(config.selector,
                              MatchFrom([cats EXCEPT ![c].selectors[i].failureCount = @ + 1],
                                        n, c, i + 1))
                  ELSE IF ElementMatches(n, config.selector)
                  THEN [cats |-> cats, matched |-> TRUE,
                        selector |-> config.selector, category |-> cats[c].name,
                        raised |-> <<>>]
                  ELSE MatchFrom(cats, n, c, i + 1)
             ELSE MatchFrom(cats, n, c, i + 1)

matchesAnySelector(cats, n) == MatchFrom(cats, n, 1, 1)

(***************************************************************************)
(* Evidence weights and calculateConfidence.  Weights are in hundredths,   *)
(* confidences in units of 1/Scale.                                        *)
(***************************************************************************)
EVIDENCE_WEIGHTS ==
    << [pattern |-> "player-class:ad-showing", w |-> 95],
       [pattern |-> "player-class:ad-interrupting", w |-> 95],
       [pattern |-> "api:getAdState=1", w |-> 98],
       [pattern |-> "element:ytp-ad-skip-button", w |-> 90],
       [pattern |-> "element:ytp-ad-text", w |-> 85],
       [pattern |-> "element:ytp-ad-preview-container", w |-> 85],
       [pattern |-> "element:ytp-ad-player-overlay-layout", w |-> 90],
       [pattern |-> "selector:ytd-promoted-sparkles-web-renderer", w |-> 90],
       [pattern |-> "selector:ytd-ad-slot-renderer", w |-> 85],
       [pattern |-> "selector:ytd-display-ad-renderer", w |-> 85],
       [pattern |-> "selector:ytd-promoted-video-renderer", w |-> 85],
       [pattern |-> "selector:ytd-in-feed-ad-layout-renderer", w |-> 85],
       [pattern |-> "selector:[data-ad-id]", w |-> 70],
       [pattern |-> "selector:[data-google-query-id]", w |-> 65],
       [pattern |-> "selector:[class*=\"-ad-\"]", w |-> 50],
       [pattern |-> "selector:[id*=\"ad-\"]", w |-> 40],
       [pattern |-> "content:external-url", w |-> 60],
       [pattern |-> "content:aria-label-domain", w |-> 70],
       [pattern |-> "content:data-url", w |-> 75],
       [pattern |-> "network:ad-service-url", w |-> 80] >>

DefaultWeight == 50

StrongWeight == 80

\* pattern.split(':')[0]
RECURSIVE BeforeColon(_, _)
BeforeColon(str, i) ==
    IF i > Len(str) THEN str
    ELSE IF SubSeq(str, i, i) = ":" THEN SubSeq(str, 1, i - 1)
    ELSE BeforeColon(str, i + 1)

\* the loop over Object.entries(EVIDENCE_WEIGHTS) for one token
RECURSIVE ResolveFrom(_, _, _)
ResolveFrom(e, k, weight) ==
    IF k > Len(EVIDENCE_WEIGHTS) THEN weight
    ELSE LET entry == EVIDENCE_WEIGHTS[k]
         IN  ResolveFrom(e, k + 1,
                IF Includes(e, entry.pattern) \/ StartsWith(e, BeforeColon(entry.pattern, 1))
                THEN Max(weight, entry.w) ELSE weight)

\* a default weight that reaches the reporting threshold
ResolveWeightHighDefault(e) == ResolveFrom(e, 1, 60)

ResolveWeight(e) == ResolveFrom(e, 1, DefaultWeight)

\* the strongSignals filter for one token
IsStrongSignal(e) ==
    \E k \in 1..Len(EVIDENCE_WEIGHTS) :
        EVIDENCE_WEIGHTS[k].w > StrongWeight /\ Includes(e, EVIDENCE_WEIGHTS[k].pattern)

\* the tokens the modelled stages and callbacks can produce
SelectorTokens == {"selector:" \o p : p \in
    {"ytd-in-feed-ad-layout-renderer", "ytd-ad-inline-playback-renderer",
     "[data-ad-id]", "[data-ad-slot]", "[data-google-query-id]", "[data-url]"}}

Reasons ==
    {"periodic-scan", "mutation-added", "mutation-attribute", "intersection-visible",
     "mutation-added-child", "mutation-attribute-child", "intersection-visible-child"}

DetectedTokens == {"detected:" \o r : r \in Reasons}

ElementTokens ==
    {"attribute:data-ad-id", "attribute:data-google-query-id",
     "class:contains-ad", "class:sponsored", "class:promoted"}

TokenUniverse == SelectorTokens \cup DetectedTokens \cup ElementTokens

\* ResolveWeight and IsStrongSignal of the tokens above, computed once
WeightCache == [e \in TokenUniverse |-> ResolveWeight(e)]

StrongCache == [e \in TokenUniverse |-> IsStrongSignal(e)]

WeightOf(e) == IF e \in TokenUniverse THEN WeightCache[e] ELSE ResolveWeight(e)

StrongOf(e) == IF e \in TokenUniverse THEN StrongCache[e] ELSE IsStrongSignal(e)

Weights(evidence) == [i \in 1..Len(evidence) |-> WeightOf(evidence[i])]

\* a weighted sum of the weights themselves, not of their squares
NotSquared(ws) == ws

Squares(ws) == [i \in 1..Len(ws) |-> ws[i] * ws[i]]

RECURSIVE SeqMax(_)
SeqMax(s) == IF s = <<>> THEN 0 ELSE Max(Head(s), SeqMax(Tail(s)))

\* the arithmetic without the final Math.min(1, ...)
ConfidenceOfNoCap(ws, strongSignals) ==
    7 * SeqMax(ws) * (Scale \div 1000)
    + (3 * SeqSum(Squares(ws)) * (Scale \div 1000)) \div SeqSum(ws)
    + Min(Scale \div 10, strongSignals * ((3 * Scale) \div 100))

\* the arithmetic of calculateConfidence on the weights ws of the evidence
ConfidenceOf(ws, strongSignals) ==
    LET maxWeight == SeqMax(ws)
        totalWeight == SeqSum(ws)
        weightedSum == SeqSum(Squares(ws))
        \* maxWeight * 0.7 + (weightedSum / totalWeight) * 0.3
        confidence == 7 * maxWeight * (Scale \div 1000)
                      + (3 * weightedSum * (Scale \div 1000)) \div totalWeight
        boost == Min(Scale \div 10, strongSignals * ((3 * Scale) \div 100))
    IN  Min(Scale, confidence + boost)

calculateConfidence(evidence) ==
    IF Len(evidence) = 0 THEN 0
    ELSE ConfidenceOf(Weights(evidence),
                      Cardinality({i \in 1..Len(evidence) : StrongOf(evidence[i])}))

\* getConfidenceThreshold
ConfidenceThreshold == (6 * Scale) \div 10

(***************************************************************************)
(* classifyAdType, createDetectionResult and AdClassifier.classify         *)
(***************************************************************************)
CacheTimeout == 2000

NoEntry == [element |-> NoValue]

TypeNeedles ==
    {"ad-showing", "ad-interrupting", "getAdState", "overlay", "banner",
     "promoted", "sparkles", "display", "network"}

MentionCache ==
    [e \in TokenUniverse |-> {x \in TypeNeedles : Includes(e, x)}]

\* evidence.join(' ').includes(x): x holds no space, so it occurs in the
\* joined string exactly when it occurs in one of the tokens
Mentions(evidence, x) ==
    \E i \in 1..Len(evidence) :
        IF evidence[i] \in TokenUniverse THEN x \in MentionCache[evidence[i]]
        ELSE Includes(evidence[i], x)

\* the needles that className || '' or the lower-cased tagName includes
NodeMentions ==
    [n \in Nodes |->
        LET className == IF NodeInfo[n].className = NoValue THEN "" ELSE NodeInfo[n].className
            tagName == NodeInfo[n].tag
        IN  {x \in TypeNeedles : Includes(className, x) \/ Includes(tagName, x)}]

\* the chain with the banner test ahead of the overlay test
AdTypeOfBannerFirst(inEvidence, inElement, video) ==
    IF \/ "ad-showing" \in inEvidence
       \/ "ad-interrupting" \in inEvidence
       \/ "getAdState" \in inEvidence
    THEN IF video >= 0 /\ video < 5 THEN "preroll" ELSE "midroll"
    ELSE IF "banner" \in inElement \/ "banner" \in inEvidence
    THEN "banner"
    ELSE IF "overlay" \in inElement \/ "overlay" \in inEvidence
    THEN "overlay"
    ELSE IF \/ "promoted" \in inElement
            \/ "promoted" \in inEvidence \/ "sparkles" \in inEvidence
    THEN "sponsored"
    ELSE IF "display" \in inElement \/ "display" \in inEvidence
    THEN "display-ad"
    ELSE IF "network" \in inEvidence THEN "network-ad"
    ELSE "display-ad"

\* the chain of tests of classifyAdType: inEvidence and inElement are the
\* needles the evidence string and the element's class or tag include
AdTypeOf(inEvidence, inElement, video) ==
    IF \/ "ad-showing" \in inEvidence
       \/ "ad-interrupting" \in inEvidence
       \/ "getAdState" \in inEvidence
    THEN IF video >= 0 /\ video < 5 THEN "preroll" ELSE "midroll"
    ELSE IF "overlay" \in inElement \/ "overlay" \in inEvidence
    THEN "overlay"
    ELSE IF "banner" \in inElement \/ "banner" \in inEvidence
    THEN "banner"
    ELSE IF \/ "promoted" \in inElement
            \/ "promoted" \in inEvidence \/ "sparkles" \in inEvidence
    THEN "sponsored"
    ELSE IF "display" \in inElement \/ "display" \in inEvidence
    THEN "display-ad"
    ELSE IF "network" \in inEvidence THEN "network-ad"
    ELSE "display-ad"

\* classifyAdType for an element given by its className and lower-cased tagName
TypeOfElement(className, tagName, evidence, video) ==
    AdTypeOf({x \in TypeNeedles : Mentions(evidence, x)},
             {x \in TypeNeedles : Includes(className, x) \/ Includes(tagName, x)}, video)

classifyAdType(n, evidence, video) ==
    AdTypeOf({x \in TypeNeedles : Mentions(evidence, x)}, NodeMentions[n], video)

createDetectionResult(n, evidence, video, t) ==
    [element |-> n,
     type |-> classifyAdType(n, evidence, video),
     confidence |-> calculateConfidence(evidence),
     evidence |-> evidence,
     timestamp |-> t]

\* [...new Set(list)]: first occurrences, in order
RECURSIVE Dedupe(_)
Dedupe(list) ==
    IF list = <<>> THEN <<>>
    ELSE LET init == Dedupe(SubSeq(list, 1, Len(list) - 1))
             last == list[Len(list)]
         IN  IF last \in Range(init) THEN init ELSE Append(init, last)

\* detectionCache.set(element, result); return result
Stored(cache, n, result) == [cache |-> [cache EXCEPT ![n] = result], result |-> result]

\* a live cache entry that is recomputed and stored on every call
ClassifyCachedAlways(cache, n, cached, evidence, mergedEvidence, video, t) ==
    Stored(cache, n, createDetectionResult(n, mergedEvidence, video, t))

\* classify on a live cache entry: merge the new evidence into it
ClassifyCached(cache, n, cached, evidence, mergedEvidence, video, t) ==
    IF Len(evidence) > 0 /\ Len(mergedEvidence) > Len(cached.evidence)
    THEN Stored(cache, n, createDetectionResult(n, mergedEvidence, video, t))
    ELSE [cache |-> cache, result |-> cached]

\* classify with a cache that never expires
classifyNoExpiry(cache, n, evidence, video, t) ==
    IF cache[n] # NoEntry
    THEN ClassifyCached(cache, n, cache[n], evidence,
                        Dedupe(cache[n].evidence \o evidence), video, t)
    ELSE Stored(cache, n, createDetectionResult(n, evidence, video, t))

\* classify: returns [cache, result]
classify(cache, n, evidence, video, t) ==
    IF cache[n] # NoEntry /\ t - cache[n].timestamp < CacheTimeout
    THEN ClassifyCached(cache, n, cache[n], evidence,
                        Dedupe(cache[n].evidence \o evidence), video, t)
    ELSE Stored(cache, n, createDetectionResult(n, evidence, video, t))

(***************************************************************************)
(* URLs: what the content script needs of the URL parser                   *)
(***************************************************************************)
EXCLUDE_DOMAINS ==
    {"youtube.com", "ytimg.com", "ggpht.com", "googleusercontent.com",
     "googlevideo.com", "gstatic.com", "google.com", "googleapis.com",
     "doubleclick.net", "googleadservices.com", "googlesyndication.com"}

\* the first index >= i at which one of the one-character strings in stops
\* occurs in str, or Len(str) + 1
RECURSIVE FirstOf(_, _, _)
FirstOf(str, stops, i) ==
    IF i > Len(str) THEN Len(str) + 1
    ELSE IF SubSeq(str, i, i) \in stops THEN i
    ELSE FirstOf(str, stops, i + 1)

SchemeLength(url) ==
    IF StartsWith(url, "https://") THEN 8
    ELSE IF StartsWith(url, "http://") THEN 7
    ELSE 0

\* new URL(url) succeeds (the modelled URLs are absolute http(s) URLs or
\* plain text; hosts are lower case)
IsParsableUrl(url) == SchemeLength(url) > 0 /\ Len(url) > SchemeLength(url)

\* new URL(url).hostname
Hostname(url) ==
    SubSeq(url, SchemeLength(url) + 1,
           FirstOf(url, {"/", "?", "#"}, SchemeLength(url) + 1) - 1)

shouldExcludeUrl(url) ==
    IF url = NoValue \/ url = "" THEN TRUE
    ELSE IF ~IsParsableUrl(url) THEN TRUE
    ELSE \E domain \in EXCLUDE_DOMAINS : Includes(Hostname(url), domain)

UpperCase == "ABCDEFGHIJKLMNOPQRSTUVWXYZ"

LowerCase == "abcdefghijklmnopqrstuvwxyz"

LowerChar(c) ==
    IF \E i \in 1..Len(UpperCase) : SubSeq(UpperCase, i, i) = c
    THEN LET i == CHOOSE j \in 1..Len(UpperCase) : SubSeq(UpperCase, j, j) = c
         IN  SubSeq(LowerCase, i, i)
    ELSE c

\* String.prototype.toLowerCase
RECURSIVE ToLowerCase(_)
ToLowerCase(str) ==
    IF Len(str) = 0 THEN ""
    ELSE LowerChar(SubSeq(str, 1, 1)) \o ToLowerCase(SubSeq(str, 2, Len(str)))

\* new URL(url).pathname
Pathname(url) ==
    LET from == FirstOf(url, {"/", "?", "#"}, SchemeLength(url) + 1)
        to == FirstOf(url, {"?", "#"}, from)
    IN  IF from = to THEN "/" ELSE SubSeq(url, from, to - 1)

\* the value of the first name=value pair at or after position i of the
\* query string, or NoValue
RECURSIVE ParamFrom(_, _, _)
ParamFrom(url, name, i) ==
    IF i > Len(url) \/ SubSeq(url, i, i) = "#" THEN NoValue
    ELSE LET stop == FirstOf(url, {"&", "#"}, i)
             pair == SubSeq(url, i, stop - 1)
         IN  IF StartsWith(pair, name \o "=")
             THEN SubSeq(pair, Len(name) + 2, Len(pair))
             ELSE ParamFrom(url, name, stop + 1)

\* new URL(url).searchParams.get(name), for values that need no decoding
SearchParam(url, name) ==
    LET q == FirstOf(url, {"?", "#"}, SchemeLength(url) + 1)
    IN  IF q > Len(url) \/ SubSeq(url, q, q) = "#" THEN NoValue
        ELSE ParamFrom(url, name, q + 1)

AD_NETWORK_DOMAINS == {"googleadservices.com", "doubleclick.net", "googlesyndication.com"}

isHostnameMatch(hostname, targetDomain) ==
    LET normalizedHostname == ToLowerCase(hostname)
        normalizedTarget == ToLowerCase(targetDomain)
    IN  \/ normalizedHostname = normalizedTarget
        \/ EndsWith(normalizedHostname, "." \o normalizedTarget)

isAdNetworkUrl(url) ==
    /\ IsParsableUrl(url)
    /\ \E domain \in AD_NETWORK_DOMAINS : isHostnameMatch(Hostname(url), domain)

isYouTubePageadUrl(url) ==
    /\ IsParsableUrl(url)
    /\ isHostnameMatch(Hostname(url), "youtube.com")
    /\ Includes(Pathname(url), "/pagead")

\* a || b on strings: the first that is neither absent nor empty
OrElse(a, b) == IF a # NoValue /\ a # "" THEN a ELSE b

extractDestinationUrl(url) ==
    IF ~IsParsableUrl(url) THEN NoValue
    ELSE OrElse(SearchParam(url, "adurl"),
                OrElse(SearchParam(url, "url"), SearchParam(url, "q")))

(***************************************************************************)
(* Content script: logAd and its callers                                   *)
(***************************************************************************)
\* a key that leaves the source out
UrlKeyUrlOnly(url, source) == url

\* `${adInfo.url}:${adInfo.source}`
UrlKey(url, source) == url \o ":" \o source

\* a logAd that forgets to test the set of seen keys
logAdNoTest(st, adInfo) ==
    [loggedUrls |-> st.loggedUrls \cup {UrlKey(adInfo.url, adInfo.source)},
     sent |-> st.sent (+) SetToBag({adInfo}),
     attempted |-> st.attempted \cup {<<adInfo.url, adInfo.source>>},
     suppressed |-> st.suppressed]

\* logAd on the reporting state st = [loggedUrls, sent, attempted, suppressed]
logAd(st, adInfo) ==
    LET urlKey == UrlKey(adInfo.url, adInfo.source)
        tried == st.attempted \cup {<<adInfo.url, adInfo.source>>}
    IN  IF urlKey \in st.loggedUrls
        THEN [st EXCEPT !.attempted = tried,
                        !.suppressed = <<adInfo.url, adInfo.source>>]
        ELSE [loggedUrls |-> st.loggedUrls \cup {urlKey},
              sent |-> st.sent (+) SetToBag({adInfo}),
              attempted |-> tried,
              suppressed |-> st.suppressed]

AdInfo(url, type, source, confidence) ==
    [url |-> url, type |-> type, source |-> source, confidence |-> confidence]

RECURSIVE LogAll(_, _)
LogAll(st, adInfos) ==
    IF adInfos = <<>> THEN st ELSE LogAll(logAd(st, Head(adInfos)), Tail(adInfos))

\* the nodes of the subtree below n, in document order
RECURSIVE IsBelow(_, _)
IsBelow(n, root) ==
    /\ NodeInfo[n].parent # NoValue
    /\ (NodeInfo[n].parent = root \/ IsBelow(NodeInfo[n].parent, root))

RECURSIVE ConcatAll(_)
ConcatAll(lists) == IF lists = <<>> THEN <<>> ELSE Head(lists) \o ConcatAll(Tail(lists))

\* hrefs of the a[href] (field links) or srcs of the img[src] (field images)
\* elements inside n
LinkUrls(n, doc) ==
    ConcatAll([i \in 1..Len(NodeOrder) |->
        IF NodeOrder[i] = n \/ (NodeOrder[i] \in doc /\ IsBelow(NodeOrder[i], n))
        THEN NodeInfo[NodeOrder[i]].links ELSE <<>>])

ImageUrls(n, doc) ==
    ConcatAll([i \in 1..Len(NodeOrder) |->
        IF NodeOrder[i] = n \/ (NodeOrder[i] \in doc /\ IsBelow(NodeOrder[i], n))
        THEN NodeInfo[NodeOrder[i]].images ELSE <<>>])

RECURSIVE KeepReportable(_)
KeepReportable(urls) ==
    IF urls = <<>> THEN <<>>
    ELSE (IF Head(urls) # "" /\ ~shouldExcludeUrl(Head(urls)) THEN <<Head(urls)>> ELSE <<>>)
         \o KeepReportable(Tail(urls))

\* processDetections: the <<url, source>> of the logAd calls it makes for
\* element n, in order
TargetsAs(urls, source) == [i \in 1..Len(urls) |-> <<urls[i], source>>]

AttributeTargets(ariaLabel, dataUrl) ==
    (IF ariaLabel # NoValue /\ ariaLabel # "" /\ Includes(ariaLabel, ".")
     THEN <<(<<"https://" \o ariaLabel, "aria-label">>)>> ELSE <<>>)
 \o (IF dataUrl # NoValue /\ ~shouldExcludeUrl(dataUrl)
     THEN <<(<<dataUrl, "data-attribute">>)>> ELSE <<>>)

ReportTargets(n, doc) ==
    AttributeTargets(NodeInfo[n].ariaLabel, NodeInfo[n].dataUrl)
 \o TargetsAs(KeepReportable(LinkUrls(n, doc)), "link-href")
 \o TargetsAs(KeepReportable(ImageUrls(n, doc)), "image-src")

\* ReportTargets, computed once for every node and document
ReportTargetsCache == [n \in Nodes |-> [doc \in SUBSET Nodes |-> ReportTargets(n, doc)]]

\* the logAd calls processDetections makes for one detection, in order
AdInfosOf(targets, detection) ==
    [i \in 1..Len(targets) |->
        AdInfo(targets[i][1], detection.type, targets[i][2], detection.confidence)]

ReportsFor(detection, doc) ==
    IF detection.confidence < ConfidenceThreshold THEN <<>>
    ELSE AdInfosOf(ReportTargetsCache[detection.element][doc], detection)

RECURSIVE processDetections(_, _, _)
processDetections(st, detections, doc) ==
    IF detections = <<>> THEN st
    ELSE processDetections(LogAll(st, ReportsFor(Head(detections), doc)), Tail(detections), doc)

\* the requests the page makes, and the texts and links of the player's
\* ad elements
RequestUrls ==
    {"https://googleads.g.doubleclick.net/pagead/id?adurl=https://shop.example/deal",
     "https://evil-doubleclick.net.attacker.example/aclk?adurl=https://shop.example/buy",
     "https://www.youtube.com/api/stats?url=https://www.youtube.com/watch"}

PlayerTexts == {"sketchy-deals.xyz", "Skip Ad", "shop.example/deal"}

PlayerLinks ==
    {"https://www.googleadservices.com/pagead/aclk?sa=L&adurl=https://shop.example/deal"}

\* the replaced window.fetch / XMLHttpRequest.open: the URL it reports for
\* a request, or NoValue
\* destUrl && !shouldExcludeUrl(destUrl): destUrl when it holds, or NoValue
Reportable(destUrl) ==
    IF destUrl # NoValue /\ destUrl # "" /\ ~shouldExcludeUrl(destUrl)
    THEN destUrl ELSE NoValue

RequestTarget(url) ==
    IF isAdNetworkUrl(url) \/ isYouTubePageadUrl(url)
    THEN Reportable(extractDestinationUrl(url))
    ELSE NoValue

RequestTargetCache == [url \in RequestUrls |-> RequestTarget(url)]

\* the body of the replaced window.fetch / XMLHttpRequest.open up to the
\* call of the original; source is 'fetch-extracted' or 'xhr-extracted'
\* logAd of a URL found, nothing for NoValue
LogFound(st, url, type, source, confidence) ==
    IF url # NoValue THEN logAd(st, AdInfo(url, type, source, confidence)) ELSE st

InterceptRequest(st, url, source) ==
    LogFound(st, RequestTargetCache[url], "network-ad", source, (8 * Scale) \div 10)

\* handleVideoAdDetection: the URL it reports for an ad text, or NoValue
VideoTextTarget(text) ==
    IF text # "" /\ Includes(text, ".") /\ ~shouldExcludeUrl("https://" \o text)
    THEN "https://" \o text ELSE NoValue

VideoTextCache == [text \in PlayerTexts |-> VideoTextTarget(text)]

\* handleVideoAdDetection: the URL it reports for a click-through link, or
\* NoValue
VideoLinkTarget(href) ==
    IF href # "" THEN Reportable(extractDestinationUrl(href)) ELSE NoValue

VideoLinkCache == [href \in PlayerLinks |-> VideoLinkTarget(href)]

\* handleVideoAdDetection; texts are the trimmed text contents of the
\* player's .ytp-ad-text / .ytp-ad-visit-advertiser-button elements and
\* hrefs the hrefs of its a[href*="adurl"], a[href*="googleadservices"]
RECURSIVE LogVideoTexts(_, _)
LogVideoTexts(st, texts) ==
    IF texts = <<>> THEN st
    ELSE LogVideoTexts(LogFound(st, VideoTextCache[Head(texts)], "video-ad",
                                "video-player-text", (9 * Scale) \div 10),
                       Tail(texts))

RECURSIVE LogVideoLinks(_, _)
LogVideoLinks(st, hrefs) ==
    IF hrefs = <<>> THEN st
    ELSE LogVideoLinks(LogFound(st, VideoLinkCache[Head(hrefs)], "video-ad",
                                "video-player-link", (85 * Scale) \div 100),
                       Tail(hrefs))

handleVideoAdDetection(st, isPlaying, hasPlayer, texts, hrefs) ==
    IF ~isPlaying \/ ~hasPlayer THEN st
    ELSE LogVideoLinks(LogVideoTexts(st, texts), hrefs)

\* processDetections([result]) for the classification r = [cache, result]
HandOver(st, r, doc) ==
    [st |-> processDetections(st, <<r.result>>, doc), cache |-> r.cache,
     handed |-> <<r.result>>]

\* handleElementDetected without its confidence test
handleElementDetectedNoTest(st, cache, n, reason, doc, video, t) ==
    IF NodeInfo[n].html
    THEN HandOver(st, classify(cache, n, <<"detected:" \o reason>>, video, t), doc)
    ELSE [st |-> st, cache |-> cache, handed |-> <<>>]

\* the confidence test of handleElementDetected
HandOverConfident(st, r, doc) ==
    IF r.result.confidence >= ConfidenceThreshold
    THEN HandOver(st, r, doc)
    ELSE [st |-> st, cache |-> r.cache, handed |-> <<>>]

\* handleElementDetected: returns the reporting state, the classifier
\* cache and the detections it handed to processDetections
handleElementDetected(st, cache, n, reason, doc, video, t) ==
    IF NodeInfo[n].html
    THEN HandOverConfident(st, classify(cache, n, <<"detected:" \o reason>>, video, t),
                           doc)
    ELSE [st |-> st, cache |-> cache, handed |-> <<>>]

RECURSIVE MinConfidence(_)
MinConfidence(detections) ==
    IF detections = <<>> THEN Scale
    ELSE Min(Head(detections).confidence, MinConfidence(Tail(detections)))

(***************************************************************************)
(* isValidAdDomain and extractAdUrls                                       *)
(***************************************************************************)
VALID_TLDS ==
    {".com", ".net", ".org", ".io", ".co", ".au", ".uk", ".ca", ".de", ".fr",
     ".it", ".es", ".nl", ".be", ".ch", ".at", ".nz", ".jp", ".in", ".us",
     ".ai", ".app", ".dev", ".tech", ".online", ".store", ".shop", ".site",
     ".xyz", ".me", ".tv", ".cc", ".info", ".biz", ".pro", ".ly"}

EXCLUDE_WORDS ==
    {"play", "plays", "like", "likes", "share", "save", "subscribe",
     "channel", "youtube", "google", "video", "watch"}

DomainChars == "abcdefghijklmnopqrstuvwxyzABCDEFGHIJKLMNOPQRSTUVWXYZ0123456789.-"

isValidAdDomain(text) ==
    LET lower == ToLowerCase(text)
    IN  /\ Includes(text, ".")
        /\ \E tld \in VALID_TLDS : EndsWith(lower, tld)
        /\ ~\E word \in EXCLUDE_WORDS : Includes(lower, word)
        /\ ~\E domain \in EXCLUDE_DOMAINS : Includes(lower, domain)
        /\ Len(text) > 0
        /\ \A i \in 1..Len(text) : Includes(DomainChars, SubSeq(text, i, i))

UrlsAs(urls, evidence) == [i \in 1..Len(urls) |-> [url |-> urls[i], evidence |-> evidence]]

\* extractAdUrls (the modelled nodes hold no text nodes)
extractAdUrls(n, doc) ==
    LET info == NodeInfo[n]
    IN  (IF info.ariaLabel # NoValue /\ info.ariaLabel # "" /\ isValidAdDomain(info.ariaLabel)
         THEN <<[url |-> "https://" \o info.ariaLabel, evidence |-> "content:aria-label-domain"]>>
         ELSE <<>>)
     \o (IF info.dataUrl # NoValue /\ info.dataUrl # "" /\ ~shouldExcludeUrl(info.dataUrl)
         THEN <<[url |-> info.dataUrl, evidence |-> "content:data-url"]>>
         ELSE <<>>)
     \o UrlsAs(KeepReportable(LinkUrls(n, doc)), "content:external-url")
     \o UrlsAs(KeepReportable(ImageUrls(n, doc)), "content:external-url")

AdUrlsCache == [n \in Nodes |-> [doc \in SUBSET Nodes |-> extractAdUrls(n, doc)]]

(***************************************************************************)
(* DetectionPipeline and its stages.  A stage works on                     *)
(*   ctx = [cats, cache, evidence, detections, executed, threw]            *)
(* where cats and cache are the selectorManager and adClassifier           *)
(* singletons the stages share.                                            *)
(***************************************************************************)
MinInterval == 100

\* document.querySelectorAll(selector), in document order
QuerySelectorAll(doc, selector) ==
    SelectSeq(NodeOrder, LAMBDA n : n \in doc /\ ElementMatches(n, selector))

\* document.querySelector(a, b, ...) finds something
QueryFinds(doc, selectors) ==
    \E n \in doc : \E selector \in selectors : ElementMatches(n, selector)

extractElementEvidence(n) ==
    LET info == NodeInfo[n]
    IN  (IF info.dataAdId # NoValue /\ info.dataAdId # ""
         THEN <<"attribute:data-ad-id">> ELSE <<>>)
     \o (IF ElementMatches(n, "[data-google-query-id]")
         THEN <<"attribute:data-google-query-id">> ELSE <<>>)
     \o (IF info.className # NoValue /\ Includes(info.className, "ad-")
         THEN <<"class:contains-ad">> ELSE <<>>)
     \o (IF info.className # NoValue /\ Includes(info.className, "sponsored")
         THEN <<"class:sponsored">> ELSE <<>>)
     \o (IF info.className # NoValue /\ Includes(info.className, "promoted")
         THEN <<"class:promoted">> ELSE <<>>)

ElementEvidenceCache == [n \in Nodes |-> extractElementEvidence(n)]

\* a stage's local result: [cats, cache, evidence, ads, threw]
StepResult(cats, cache, evidence, ads, threw) ==
    [cats |-> cats, cache |-> cache, evidence |-> evidence, ads |-> ads, threw |-> threw]

\* DomSelectorStep: the body of elements.forEach for one element
\* ads.push(result) when the result is confident enough
PushConfident(ads, result) ==
    IF result.confidence >= ConfidenceThreshold THEN Append(ads, result) ELSE ads

\* the classification r = [cache, result] of an element, added to the step's state
Classified(cats, evidence, ads, r) ==
    StepResult(cats, r.cache, evidence, PushConfident(ads, r.result), FALSE)

\* the element found, with the health record and the step's evidence updated
DomElementFound(acc, cats, evidence, n, video, t) ==
    IF NodeInfo[n].html
    THEN Classified(cats, evidence, acc.ads,
                    classify(acc.cache, n, evidence \o ElementEvidenceCache[n], video, t))
    ELSE StepResult(cats, acc.cache, evidence, acc.ads, FALSE)

DomElement(acc, selector, n, video, t) ==
    DomElementFound(acc, recordSuccess(acc.cats, selector),
                    Append(acc.evidence, "selector:" \o selector), n, video, t)

RECURSIVE DomElements(_, _, _, _, _)
DomElements(acc, selector, elements, video, t) ==
    IF elements = <<>> THEN acc
    ELSE DomElements(DomElement(acc, selector, Head(elements), video, t),
                     selector, Tail(elements), video, t)

\* DomSelectorStep: the try/catch around one selector's querySelectorAll
DomSelector(acc, selector, doc, video, t) ==
    IF IsMalformed(selector)
    THEN [acc EXCEPT !.cats = recordFailure(acc.cats, selector)]
    ELSE DomElements(acc, selector, QuerySelectorAll(doc, selector), video, t)

\* DomSelectorStep: the loop over the selectors
RECURSIVE DomSelectors(_, _, _, _, _)
DomSelectors(acc, selectors, doc, video, t) ==
    IF selectors = <<>> THEN acc
    ELSE DomSelectors(DomSelector(acc, Head(selectors), doc, video, t),
                      Tail(selectors), doc, video, t)

DomSelectorStep(ctx, doc, video, t) ==
    DomSelectors(StepResult(ctx.cats, ctx.cache, <<>>, <<>>, FALSE),
                 getAllActiveSelectors(ctx.cats), doc, video, t)

\* ApiDetectionStep: returns early when the page has no player, and
\* never returns ads
ApiDetectionStep(ctx, doc) ==
    LET players == QuerySelectorAll(doc, ".html5-video-player")
        evidence ==
            IF players = <<>> THEN <<>>
            ELSE (IF "ad-showing" \in ClassList(Head(players))
                  THEN <<"player-class:ad-showing">> ELSE <<>>)
              \o (IF "ad-interrupting" \in ClassList(Head(players))
                  THEN <<"player-class:ad-interrupting">> ELSE <<>>)
    IN  StepResult(ctx.cats, ctx.cache, evidence, <<>>, FALSE)

VisualAnalysisStep(ctx, doc) ==
    LET check(selectors, token) == IF QueryFinds(doc, selectors) THEN <<token>> ELSE <<>>
        evidence ==
            check({".ytp-ad-skip-button", ".ytp-ad-skip-button-container"},
                  "element:ytp-ad-skip-button")
         \o check({".ytp-ad-preview-container"}, "element:ytp-ad-preview-container")
         \o check({".ytp-ad-text"}, "element:ytp-ad-text")
         \o check({".ytp-ad-player-overlay-layout"}, "element:ytp-ad-player-overlay-layout")
         \o check({".ytp-ad-badge", "[aria-label*=\"Ad\"]"}, "element:ad-badge")
         \o check({".ytp-ad-duration-remaining"}, "element:ad-countdown")
         \o check({"ytd-promoted-sparkles-web-renderer"},
                  "element:ytd-promoted-sparkles-web-renderer")
    IN  StepResult(ctx.cats, ctx.cache, evidence, <<>>, FALSE)

\* overlay.className?.includes('ad') is a call of undefined, a TypeError,
\* when className is not a string (an SVG element's SVGAnimatedString)
RECURSIVE CheckOverlays(_, _)
CheckOverlays(acc, overlays) ==
    IF overlays = <<>> THEN acc
    ELSE LET info == NodeInfo[Head(overlays)]
         IN  IF info.zIndex > 1000
             THEN IF info.className = NoValue
                  THEN [acc EXCEPT !.threw = TRUE]
                  ELSE CheckOverlays(
                           IF Includes(info.className, "ad")
                           THEN [acc EXCEPT !.evidence = Append(@, "heuristic:high-z-index-ad")]
                           ELSE acc,
                           Tail(overlays))
             ELSE CheckOverlays(acc, Tail(overlays))

\* HeuristicValidationStep (the page's video, if any, is a single element
\* whose source carries no ad parameters, and neither does the page URL)
HeuristicValidationStep(ctx, doc) ==
    CheckOverlays(StepResult(ctx.cats, ctx.cache, <<>>, <<>>, FALSE),
                  QuerySelectorAll(doc, "[style*=\"z-index\"]"))

\* the evidence of each URL extractAdUrls found
EvidenceOf(urls) == [i \in 1..Len(urls) |-> urls[i].evidence]

RECURSIVE ContentEvidence(_, _)
ContentEvidence(detections, doc) ==
    IF detections = <<>> THEN <<>>
    ELSE EvidenceOf(AdUrlsCache[Head(detections).element][doc])
         \o ContentEvidence(Tail(detections), doc)

\* ContentAnalysisStep: the ad infos it builds are dropped, only the
\* evidence is returned
ContentAnalysisStep(ctx, doc) ==
    StepResult(ctx.cats, ctx.cache, ContentEvidence(ctx.detections, doc), <<>>, FALSE)

\* createDefaultPipeline
Steps ==
    <<"ApiDetectionStep", "DomSelectorStep", "VisualAnalysisStep",
      "HeuristicValidationStep", "ContentAnalysisStep">>

\* step.execute(context)
ExecuteStep(name, ctx, doc, video, t) ==
    CASE name = "ApiDetectionStep" -> ApiDetectionStep(ctx, doc)
      [] name = "DomSelectorStep" -> DomSelectorStep(ctx, doc, video, t)
      [] name = "VisualAnalysisStep" -> VisualAnalysisStep(ctx, doc)
      [] name = "HeuristicValidationStep" -> HeuristicValidationStep(ctx, doc)
      [] OTHER -> ContentAnalysisStep(ctx, doc)

\* the body of the for loop of run() after step.execute returned result or
\* threw: evidence and ads are merged into the context
AfterStep(ctx, name, result) ==
    IF result.threw
    THEN [ctx EXCEPT !.cats = result.cats, !.cache = result.cache,
                     !.executed = Append(@, name), !.threw = TRUE]
    ELSE [cats |-> result.cats, cache |-> result.cache,
          evidence |-> ctx.evidence \o result.evidence,
          detections |-> ctx.detections \o result.ads,
          executed |-> Append(ctx.executed, name), threw |-> FALSE]

\* the for loop of run(): try/finally without a catch, so a stage that
\* throws ends the loop and the error leaves run()
RECURSIVE RunSteps(_, _, _, _, _)
RunSteps(ctx, i, doc, video, t) ==
    IF i > Len(Steps) \/ ctx.threw THEN ctx
    ELSE RunSteps(AfterStep(ctx, Steps[i], ExecuteStep(Steps[i], ctx, doc, video, t)),
                  i + 1, doc, video, t)

\* a final filter that keeps the last detection of each element
RECURSIVE UniqueByElementLast(_, _)
UniqueByElementLast(detections, seen) ==
    IF detections = <<>> THEN <<>>
    ELSE IF \E i \in 2..Len(detections) : detections[i].element = Head(detections).element
    THEN UniqueByElementLast(Tail(detections), seen)
    ELSE <<Head(detections)>> \o UniqueByElementLast(Tail(detections), seen)

\* the final filter of run(): the first detection of each element
RECURSIVE UniqueByElement(_, _)
UniqueByElement(detections, seen) ==
    IF detections = <<>> THEN <<>>
    ELSE IF Head(detections).element \in seen
    THEN UniqueByElement(Tail(detections), seen)
    ELSE <<Head(detections)>>
         \o UniqueByElement(Tail(detections), seen \cup {Head(detections).element})

\* a throttle test that never holds
IsThrottledNever(t, last) == t - last < 0

IsThrottled(t, last) == t - last < MinInterval

\* what a non-throttled run() leaves behind the loop: the unique detections
\* are returned unless a stage threw
Outcome(t, ctx, unique) ==
    [lastRunTime |-> t, cats |-> ctx.cats, cache |-> ctx.cache,
     throttled |-> FALSE, threw |-> ctx.threw, executed |-> ctx.executed,
     accumulated |-> unique, returned |-> IF ctx.threw THEN <<>> ELSE unique,
     detections |-> ctx.detections]

Finished(t, ctx) == Outcome(t, ctx, UniqueByElement(ctx.detections, {}))

\* a run() whose throttled calls restart the interval
runStampsThrottled(last, cats, cache, doc, video, t) ==
    IF IsThrottled(t, last)
    THEN [lastRunTime |-> t, cats |-> cats, cache |-> cache, throttled |-> TRUE,
          threw |-> FALSE, executed |-> <<>>, accumulated |-> <<>>, returned |-> <<>>,
          detections |-> <<>>]
    ELSE Finished(t, RunSteps([cats |-> cats, cache |-> cache, evidence |-> <<>>,
                               detections |-> <<>>, executed |-> <<>>, threw |-> FALSE],
                              1, doc, video, t))

\* run(): [lastRunTime, cats, cache, throttled, threw, executed, accumulated, returned,
\* detections], detections being context.detections before the final filter
run(last, cats, cache, doc, video, t) ==
    IF IsThrottled(t, last)
    THEN [lastRunTime |-> last, cats |-> cats, cache |-> cache, throttled |-> TRUE,
          threw |-> FALSE, executed |-> <<>>, accumulated |-> <<>>, returned |-> <<>>,
          detections |-> <<>>]
    ELSE Finished(t, RunSteps([cats |-> cats, cache |-> cache, evidence |-> <<>>,
                               detections |-> <<>>, executed |-> <<>>, threw |-> FALSE],
                              1, doc, video, t))

(***************************************************************************)
(* ObserverManager with its debounce and throttle closures.  Neither       *)
(* observers.ts nor performance.ts reads the clock: every timer is kept as *)
(* the time left until it is due (negative once it is overdue).            *)
(***************************************************************************)
\* the options initialize() constructs the ObserverManager with
ScanInterval == 2000

DebounceMs == 100

MaxStarts == 2

TimeStep == 50

MaxLate == 50

Generations == 1..MaxStarts

NoTimer == [armed |-> FALSE, rem |-> 0]

Timer(delay) == [armed |-> TRUE, rem |-> delay]

IsDue(timer) == timer.armed /\ timer.rem <= 0

NoPass == [ran |-> FALSE]

\* what a step of the watcher did: the callback invocations it made, the
\* registry health calls, whether a full-scan body ran, the pass of the
\* change handler, and the time since the same throttle closure last ran
\* its function (ScanInterval: that long or longer ago, or not at all)
Did(op, emitted, healthCalls, scanned, pass, gap) ==
    [op |-> op, emitted |-> emitted, healthCalls |-> healthCalls,
     scanned |-> scanned, pass |-> pass, gap |-> gap]

Idle(op) == Did(op, <<>>, 0, FALSE, NoPass, ScanInterval)

\* element.querySelectorAll(selector): the matching descendants
QueryBelow(n, doc, selector) ==
    SelectSeq(NodeOrder, LAMBDA m : m \in doc /\ IsBelow(m, n) /\ ElementMatches(m, selector))

\* what the watcher knows of visibility: options.visibleOnly, the set
\* visibleElements, and whether this.intersectionObserver is set
Visibility(only, visible, observer) ==
    [only |-> only, visible |-> visible, observer |-> observer]

\* the state a pass works on: the registry, the callback invocations made,
\* the number of health calls, the elements handed to observeVisibility,
\* and whether processElement returned before looking at the children
Acc(cats, vis) ==
    [cats |-> cats, emitted |-> <<>>, healthCalls |-> 0, observed |-> {},
     deferred |-> FALSE, vis |-> vis]

\* a visibility test that never defers
IsDeferredNever(vis, element) == FALSE

\* this.options.visibleOnly && !this.visibleElements.has(element)
IsDeferred(vis, element) == vis.only /\ element \notin vis.visible

\* observeVisibility(element) or this.onElementDetected(element, reason)
Deliver(acc, element, reason, defer) ==
    [acc EXCEPT !.emitted = IF defer THEN @ ELSE Append(@, <<element, reason>>),
                !.observed = IF defer /\ acc.vis.observer THEN @ \cup {element} ELSE @,
                !.deferred = defer]

\* recordSuccess, then observeVisibility or the callback, for each element
\* a selector found
RECURSIVE FoundElements(_, _, _, _)
FoundElements(acc, selector, elements, reason) ==
    IF elements = <<>> THEN acc
    ELSE FoundElements(
             Deliver([acc EXCEPT !.cats = recordSuccess(@, selector),
                                 !.healthCalls = @ + 1],
                     Head(elements), reason, IsDeferred(acc.vis, Head(elements))),
             selector, Tail(elements), reason)

\* the try/catch around one selector's querySelectorAll
ScanSelector(acc, selector, below, n, doc, reason) ==
    IF IsMalformed(selector)
    THEN [acc EXCEPT !.cats = recordFailure(acc.cats, selector), !.healthCalls = @ + 1]
    ELSE FoundElements(acc, selector,
                       IF below THEN QueryBelow(n, doc, selector)
                       ELSE QuerySelectorAll(doc, selector),
                       reason)

\* the selectors.forEach of processElement (below = TRUE, under element n)
\* and of performFullScan (below = FALSE, the whole document)
RECURSIVE ScanSelectors(_, _, _, _, _, _)
ScanSelectors(acc, selectors, below, n, doc, reason) ==
    IF selectors = <<>> THEN acc
    ELSE ScanSelectors(ScanSelector(acc, Head(selectors), below, n, doc, reason),
                       Tail(selectors), below, n, doc, reason)

\* the first half of processElement, given what matchesAnySelector returned
\* (and the failures it recorded on the way)
ElementMatched(acc, match, n, reason) ==
    IF match.matched
    THEN Deliver([acc EXCEPT !.cats = IF match.selector # NoValue
                                      THEN recordSuccess(match.cats, match.selector)
                                      ELSE match.cats,
                             !.healthCalls = @ + 1],
                 n, reason, IsDeferred(acc.vis, n))
    ELSE [acc EXCEPT !.cats = match.cats,
                     !.healthCalls = IF match.cats = acc.cats THEN @ ELSE @ + 1,
                     !.deferred = FALSE]

\* the second half of processElement: the children
ScanChildren(acc, n, reason, doc) ==
    ScanSelectors(acc, getAllActiveSelectors(acc.cats), TRUE, n, doc, reason \o "-child")

\* processElement returns after observeVisibility(element); otherwise it
\* goes on to the children
AfterMatch(m, n, reason, doc) ==
    IF m.deferred THEN m ELSE ScanChildren(m, n, reason, doc)

processElement(acc, n, reason, doc) ==
    AfterMatch(ElementMatched(acc, matchesAnySelector(acc.cats, n), n, reason),
               n, reason, doc)

\* the body of performFullScan behind its isRunning test
Scanned(acc) ==
    [cats |-> acc.cats, emitted |-> acc.emitted, healthCalls |-> acc.healthCalls,
     observed |-> acc.observed, scanned |-> TRUE]

ScanDocument(cats, doc, vis) ==
    Scanned(ScanSelectors(Acc(cats, vis),
                          getAllActiveSelectors(cats), FALSE, NoValue, doc, "periodic-scan"))

\* a performFullScan that does not look at isRunning
performFullScanAlways(running, cats, doc, vis) == ScanDocument(cats, doc, vis)

\* performFullScan: [cats, emitted, healthCalls, observed, scanned]
performFullScan(running, cats, doc, vis) ==
    IF ~running
    THEN [cats |-> cats, emitted |-> <<>>, healthCalls |-> 0, observed |-> {},
          scanned |-> FALSE]
    ELSE ScanDocument(cats, doc, vis)

\* a change record: childList with the added elements, or attributes
ChildList(added) == [type |-> "childList", added |-> added, target |-> NoValue]

Attributes(target) == [type |-> "attributes", added |-> <<>>, target |-> target]

RECURSIVE ProcessAdded(_, _, _)
ProcessAdded(acc, added, doc) ==
    IF added = <<>> THEN acc
    ELSE ProcessAdded(processElement(acc, Head(added), "mutation-added", doc),
                      Tail(added), doc)

\* the attribute branch of the change handler for one record
ProcessTarget(acc, mutation, doc) ==
    IF mutation.type = "attributes"
    THEN processElement(acc, mutation.target, "mutation-attribute", doc)
    ELSE acc

\* the mutations.forEach of the change handler
RECURSIVE ProcessRecords(_, _, _)
ProcessRecords(acc, mutations, doc) ==
    IF mutations = <<>> THEN acc
    ELSE ProcessRecords(
             ProcessTarget(ProcessAdded(acc, Head(mutations).added, doc),
                           Head(mutations), doc),
             Tail(mutations), doc)

\* the function setupMutationObserver hands to debounce
handleMutations(running, cats, mutations, doc, vis) ==
    IF ~running THEN Acc(cats, vis)
    ELSE ProcessRecords(Acc(cats, vis), mutations, doc)

\* a debounce closure: its timer, the arguments the timer will pass on, and
\* as history every record of the notifications since the timer last
\* fired, and whether each came less than DebounceMs after the one before
NoDebounce == [timer |-> NoTimer, args |-> <<>>, burst |-> <<>>, tight |-> TRUE]

\* a call of the debounced function: clearTimeout, then setTimeout
debounced(d, mutations) ==
    [timer |-> Timer(DebounceMs),
     args |-> mutations,
     burst |-> IF d.timer.armed THEN d.burst \o mutations ELSE mutations,
     tight |-> IF d.timer.armed THEN d.tight /\ d.timer.rem > 0 ELSE TRUE]

\* a throttle closure: inThrottle, lastArgs !== null, and its timer
NoThrottle == [inThrottle |-> FALSE, hasArgs |-> FALSE, timer |-> NoTimer]

\* a call of the throttled function: the closure after it, and whether the
\* wrapped function ran
throttled(th) ==
    IF ~th.inThrottle
    THEN [th |-> [inThrottle |-> TRUE, hasArgs |-> th.hasArgs, timer |-> Timer(ScanInterval)],
          ran |-> TRUE]
    ELSE [th |-> [th EXCEPT !.hasArgs = TRUE], ran |-> FALSE]

\* the timer callback of throttle: it ends the throttle, runs the wrapped
\* function for a call it had stored, and sets no new timer
throttleTimeout(th) ==
    [th |-> [inThrottle |-> FALSE, hasArgs |-> FALSE, timer |-> NoTimer],
     ran |-> th.hasArgs]

\* what the host provides: both observer constructors, or one of them is
\* missing (new MutationObserver / new IntersectionObserver raises)
FullHost == "full"

Hosts == {FullHost, "no-change-observer", "no-visibility-observer"}

NoStart == [host |-> FullHost, raised |-> FALSE]

\* a start() that does not look at isRunning
AlreadyRunningNever(running) == FALSE

\* if (this.isRunning) return
AlreadyRunning(running) == running

(***************************************************************************)
(* Background worker: cleanUrl and the message listener.  The log is       *)
(* capped at 500 entries in the code; LogLimit stands for that cap.        *)
(***************************************************************************)
LogLimit == 3

TrackingPrefixes == {"utm_", "fbclid", "gclid", "_ga", "mc_"}

\* /^(utm_|fbclid|gclid|_ga|mc_)/i.test(key), on the key=value pair
IsTrackingParam(pair) ==
    \E prefix \in TrackingPrefixes : StartsWith(ToLowerCase(pair), prefix)

\* cleanParams.toString(): the pairs of the query string from position i on
\* whose key is no tracking parameter (the modelled queries repeat no key
\* and need no encoding)
RECURSIVE KeptParams(_, _)
KeptParams(url, i) ==
    IF i > Len(url) THEN ""
    ELSE LET stop == FirstOf(url, {"&"}, i)
             pair == SubSeq(url, i, stop - 1)
             rest == KeptParams(url, stop + 1)
         IN  IF pair = "" \/ IsTrackingParam(pair) THEN rest
             ELSE IF rest = "" THEN pair
             ELSE pair \o "&" \o rest

\* urlObj.toString() after urlObj.search = cleanParams.toString() (the
\* modelled URLs have no port, credentials or fragment)
WithoutTracking(url) ==
    LET kept == KeptParams(url, FirstOf(url, {"?"}, SchemeLength(url) + 1) + 1)
    IN  SubSeq(url, 1, SchemeLength(url)) \o Hostname(url) \o Pathname(url)
        \o (IF kept = "" THEN "" ELSE "?" \o kept)

IsAdServiceHost(hostname) ==
    \E domain \in AD_NETWORK_DOMAINS : Includes(hostname, domain)

\* cleanUrl: the cleaned URL, or NoValue for null
RECURSIVE cleanUrl(_)
cleanUrl(url) ==
    IF IsParsableUrl(url)
    THEN IF IsAdServiceHost(Hostname(url))
         THEN LET destUrl == OrElse(SearchParam(url, "adurl"),
                                    OrElse(SearchParam(url, "url"), SearchParam(url, "q")))
              IN  IF destUrl # NoValue /\ destUrl # "" THEN cleanUrl(destUrl) ELSE NoValue
         ELSE WithoutTracking(url)
    ELSE IF StartsWith(url, "http") THEN url
    ELSE "https://" \o url

LogEntry(cleanedUrl, adInfo) ==
    [destinationUrl |-> cleanedUrl, adType |-> adInfo.type, source |-> adInfo.source]

LoggedUrls(log) == {log[i].destinationUrl : i \in 1..Len(log)}

\* adLog.unshift(logEntry), then the cut to the newest entries
Unshifted(log, logEntry) ==
    LET grown == <<logEntry>> \o log
    IN  IF Len(grown) > LogLimit THEN SubSeq(grown, 1, LogLimit) ELSE grown

Answer(log, stored, success, cleanedUrl) ==
    [adLog |-> log, storedLog |-> stored, success |-> success, cleaned |-> cleanedUrl]

\* the logAdElement branch for an accepted URL: unshift, cut, save
Accepted(log, cleanedUrl, adInfo) ==
    LET next == Unshifted(log, LogEntry(cleanedUrl, adInfo))
    IN  Answer(next, next, TRUE, cleanedUrl)

\* a listener without the test for a logged URL
logAdElementNoTest(log, stored, cleanedUrl, adInfo) ==
    IF cleanedUrl = NoValue \/ cleanedUrl = ""
    THEN Answer(log, stored, FALSE, cleanedUrl)
    ELSE Accepted(log, cleanedUrl, adInfo)

\* the logAdElement branch of the listener, cleanedUrl being
\* cleanUrl(adInfo.url): [adLog, storedLog, success, cleaned]
logAdElement(log, stored, cleanedUrl, adInfo) ==
    IF cleanedUrl = NoValue \/ cleanedUrl = "" \/ cleanedUrl \in LoggedUrls(log)
    THEN Answer(log, stored, FALSE, cleanedUrl)
    ELSE Accepted(log, cleanedUrl, adInfo)

\* the URLs of the messages
MessageUrls ==
    {"https://shop.example/deal",
     "https://shop.example/deal?utm_source=yt",
     "https://shop.example/item?id=7&gclid=abc",
     "https://www.googleadservices.com/pagead/aclk?adurl=https://shop.example/buy",
     "https://googleads.g.doubleclick.net/pagead/id",
     "sketchy-deals.xyz"}

Messages == {[url |-> url, type |-> "display-ad", source |-> "link-href"] : url \in MessageUrls}

CleanedCache == [url \in MessageUrls |-> cleanUrl(url)]

\* what chrome.storage.local holds when the worker starts
StoredAtStartup ==
    << [destinationUrl |-> "https://shop.example/deal", adType |-> "display-ad",
        source |-> "data-attribute"] >>

Reply(action, url, cleanedUrl, success) ==
    [action |-> action, url |-> url, cleaned |-> cleanedUrl, success |-> success]

InitBackground ==
    /\ adLog = <<>>
    /\ storedLog = StoredAtStartup
    /\ loadPending = TRUE
    /\ expected = {}
    /\ reply = Reply("none", NoValue, NoValue, FALSE)

(***************************************************************************)
(* VideoPlayerObserver.  What the page shows of the player is state of the *)
(* page; the callback is the constructor's parameter, its invocations are  *)
(* recorded in checked.                                                    *)
(***************************************************************************)
MaxTimers == 3

\* a page: whether it has a .html5-video-player element, the player's
\* classes, the ad elements inside the player, the document-wide overlay
\* layout, and what player.getAdState() returns (-1: no such function)
Page(player, classes, inside, overlay, adState) ==
    [player |-> player, classes |-> classes, inside |-> inside, overlay |-> overlay,
     adState |-> adState]

NoPlayerPage == Page(FALSE, {}, {}, FALSE, 0 - 1)

Pages ==
    {NoPlayerPage,
     Page(TRUE, {}, {}, FALSE, 0 - 1),
     Page(TRUE, {}, {}, FALSE, 0),
     Page(TRUE, {"ad-showing"}, {".ytp-ad-text"}, FALSE, 1),
     Page(TRUE, {}, {}, TRUE, 0 - 1)}

\* the evidence checkPlayer collects on a page with a player
PlayerEvidence(page) ==
    (IF "ad-showing" \in page.classes THEN <<"player-class:ad-showing">> ELSE <<>>)
 \o (IF "ad-interrupting" \in page.classes THEN <<"player-class:ad-interrupting">> ELSE <<>>)
 \o (IF ".ytp-ad-text" \in page.inside THEN <<"element:ytp-ad-text">> ELSE <<>>)
 \o (IF ".ytp-ad-skip-button" \in page.inside THEN <<"element:ytp-ad-skip-button">> ELSE <<>>)
 \o (IF ".ytp-ad-preview-container" \in page.inside
     THEN <<"element:ytp-ad-preview-container">> ELSE <<>>)
 \o (IF page.overlay THEN <<"element:ytp-ad-player-overlay-layout">> ELSE <<>>)
 \o (IF page.adState = 1 THEN <<"api:getAdState=1">> ELSE <<>>)

Checked(op, found, evidence, before, invoked) ==
    [op |-> op, found |-> found, evidence |-> evidence, before |-> before,
     invoked |-> invoked]

NotChecked(op) == Checked(op, FALSE, <<>>, FALSE, FALSE)

\* isAdPlaying !== this.lastState || isAdPlaying
ShouldNotify(isAdPlaying, last) == isAdPlaying # last \/ isAdPlaying

\* checkPlayer: [lastState, checked]
checkPlayer(page, last) ==
    IF ~page.player
    THEN [lastState |-> last, checked |-> Checked("check", FALSE, <<>>, last, FALSE)]
    ELSE LET evidence == PlayerEvidence(page)
             isAdPlaying == Len(evidence) > 0
         IN  IF ShouldNotify(isAdPlaying, last)
             THEN [lastState |-> isAdPlaying,
                   checked |-> Checked("check", TRUE, evidence, last, TRUE)]
             ELSE [lastState |-> last,
                   checked |-> Checked("check", TRUE, evidence, last, FALSE)]

(***************************************************************************)
(* The video player observer on a page whose player comes, goes and shows  *)
(* ads, under start() and stop() calls.                                    *)
(***************************************************************************)
InitPlayer ==
    /\ playerPage = NoPlayerPage
    /\ lastState = FALSE
    /\ intervalId = 0
    /\ checkTimers = {}
    /\ timersMade = 0
    /\ checked = NotChecked("init")

(***************************************************************************)
(* BatchOperations.  An operation is a function of the caller; what it     *)
(* does when it runs is either nothing the batch sees, or one read() or    *)
(* write() call on the same batch.  Operations are told apart by id.       *)
(***************************************************************************)
MaxBatchCalls == 3

OpEffects == {"nothing", "read", "write"}

Operation(id, effect) == [id |-> id, effect |-> effect]

\* the operation that operation op queues when it runs
QueuedBy(op) == Operation(op.id + MaxBatchCalls, "nothing")

OperationIds == 1..(2 * MaxBatchCalls)

\* fns.forEach(fn => fn()) while pendingReads and pendingWrites are reads
\* and writes: every fn runs in order; scheduleFlush inside the nested
\* call does nothing, since scheduled is true while flush runs
RECURSIVE ForEach(_, _, _, _, _, _)
ForEach(fns, i, kind, reads, writes, order) ==
    IF i > Len(fns) THEN [reads |-> reads, writes |-> writes, order |-> order]
    ELSE ForEach(fns, i + 1, kind,
                 IF fns[i].effect = "read" THEN Append(reads, QueuedBy(fns[i])) ELSE reads,
                 IF fns[i].effect = "write" THEN Append(writes, QueuedBy(fns[i])) ELSE writes,
                 Append(order, <<kind, fns[i].id>>))

\* flush: [reads, writes, order], the two queues after it and the
\* operations it ran, in order
flush(reads, writes) ==
    LET afterReads == ForEach(reads, 1, "read", <<>>, writes, <<>>)
    IN  ForEach(afterReads.writes, 1, "write", afterReads.reads, <<>>, afterReads.order)

IdsOf(fns) == {fns[i].id : i \in 1..Len(fns)}

(***************************************************************************)
(* A batch that callers queue reads and writes on, and the animation       *)
(* frames of the browser.                                                  *)
(***************************************************************************)
InitBatch ==
    /\ pendingReads = <<>>
    /\ pendingWrites = <<>>
    /\ scheduled = FALSE
    /\ frameRequests = 0
    /\ batchCalls = 0
    /\ batchRun = {}
    /\ flushOrder = <<>>

(***************************************************************************)
(* The registry driven directly through its public methods                 *)
(***************************************************************************)
MaxHealthOps == 6

MaxFailureCount == 7

Patterns ==
    {"ytd-in-feed-ad-layout-renderer", "ytd-ad-inline-playback-renderer",
     "[data-ad-id]", "[data-ad-slot]", "[data-google-query-id]",
     BadPattern, ExtraPattern}

\* the patterns the registry is driven with
DrivenPatterns == {"ytd-in-feed-ad-layout-renderer", "[data-ad-id]", BadPattern, ExtraPattern}

CategoryNames == {"in-feed-ads", "data-attributes", "remote", "backup"}

\* catalogs handed to addCategory: duplicate-free entry lists
SeedCatalogs ==
    { [name |-> "remote",
       selectors |-> << Entry(ExtraPattern, 1, (35 * Scale) \div 100, 0) >>],
      [name |-> "backup",
       selectors |-> << Entry(BadPattern, 1, Scale, 0),
                        Entry("[data-ad-id]", 2, Scale \div 2, 4) >>],
      \* a replacement of a default category: Map.set keeps its place
      [name |-> "in-feed-ads",
       selectors |-> << Entry(BadPattern, 1, Scale, 0),
                        Entry(ExtraPattern, 2, (32 * Scale) \div 100, 0) >>] }

\* remote configurations handed to updateFromConfig
RemoteConfigs ==
    { << [name |-> "remote", selectors |-> <<BadPattern>>],
         [name |-> "data-attributes", selectors |-> <<"[data-ad-id]", ExtraPattern>>] >> }

EntriesOf(cats, p) ==
    {c \in Range(AllConfigs(cats)) : c.selector = p}

IsReturned(cats, p) == p \in Range(getAllActiveSelectors(cats))

\* every entry of p is active and has failureCount 0
FreshActive(cats, p) ==
    /\ EntriesOf(cats, p) # {}
    /\ \A c \in EntriesOf(cats, p) : IsActiveConfig(c) /\ c.failureCount = 0

BestRate(cats, p) ==
    CHOOSE r \in {c.successRate : c \in EntriesOf(cats, p)} :
        \A c \in EntriesOf(cats, p) : c.successRate <= r

\* history of failure streaks, after a call that takes cats to next;
\* failed is the pattern recordFailure was called with (NoValue: another call)
TrackStreaks(cats, next, failed) ==
    /\ streak' = [p \in DrivenPatterns |->
          IF p = failed /\ streak[p] >= 0 THEN streak[p] + 1
          ELSE IF EntriesOf(cats, p) = EntriesOf(next, p) /\ streak[p] > 0 THEN streak[p]
          ELSE IF FreshActive(next, p) THEN 0
          ELSE -1]
    /\ streakRate' = [p \in DrivenPatterns |->
          IF streak'[p] = 0 THEN BestRate(next, p)
          ELSE IF streak'[p] > 0 THEN streakRate[p]
          ELSE 0]
    /\ healthOps' = healthOps + 1
    /\ UNCHANGED <<scored, classVars, visVars, docVars, pipeVars, reportVars, watchVars, sideVars>>

NoMatch ==
    [matched |-> FALSE, selector |-> NoValue, category |-> NoValue, raised |-> <<>>]

\* a call of a registry method: its arguments, the registry before it and,
\* for matchesAnySelector, what it returned
Call(op, arg, category, before, result) ==
    [op |-> op, arg |-> arg, category |-> category, before |-> before, result |-> result]

NoCall == Call("none", NoValue, NoValue, <<>>, NoMatch)

InitRegistry ==
    /\ categories = DefaultCategories
    /\ lastCall = NoCall
    /\ streak = [p \in DrivenPatterns |-> IF FreshActive(DefaultCategories, p) THEN 0 ELSE -1]
    /\ streakRate = [p \in DrivenPatterns |->
          IF FreshActive(DefaultCategories, p) THEN BestRate(DefaultCategories, p) ELSE 0]
    /\ healthOps = 0

Epoch == 1000

NoRun ==
    [called |-> FALSE, sincePrev |-> 0, throttled |-> FALSE,
     threw |-> FALSE, executed |-> <<>>, accumulated |-> <<>>, returned |-> <<>>,
     healthSame |-> TRUE, appended |-> <<>>, kept |-> <<>>]

InitDocument ==
    /\ now = Epoch
    /\ attached = {}
    /\ videoTime = -1

InitPipeline ==
    /\ detectionCache = [n \in Nodes |-> NoEntry]
    /\ lastRunTime = 0
    /\ lastRun = NoRun
    /\ lastExec = 0

InitReporting ==
    /\ loggedUrls = {}
    /\ sent = EmptyBag
    /\ attempted = {}
    /\ suppressed = <<>>
    /\ handedMin = Scale

NoScore ==
    [evidence |-> <<>>, weights |-> <<>>, strong |-> <<>>, confidence |-> 0,
     called |-> FALSE]

InitScoring == scored = NoScore

NoClassify ==
    [called |-> FALSE, count |-> 0, element |-> NoValue, evidence |-> <<>>,
     before |-> NoEntry, result |-> NoEntry, at |-> 0]

NoType ==
    [called |-> FALSE, className |-> "", tagName |-> "", evidence |-> <<>>,
     video |-> -1, type |-> NoValue]

InitClassifier ==
    /\ classified = NoClassify
    /\ typed = NoType

InitWatcher ==
    /\ isRunning = FALSE
    /\ generation = 0
    /\ mutationObserver = 0
    /\ intersectionObserver = 0
    /\ scanIntervalId = 0
    /\ connected = {}
    /\ intervalT = [g \in Generations |-> NoTimer]
    /\ debounceT = [g \in Generations |-> NoDebounce]
    /\ throttleT = [g \in Generations |-> NoThrottle]
    /\ sinceExec = [g \in Generations |-> ScanInterval]
    /\ notified = 0
    /\ smallSteps = 0
    /\ did = Idle("init")
    /\ visibleOnly = FALSE
    /\ visibleElements = {}
    /\ observing = {}
    /\ startOutcome = NoStart

Init ==
    /\ InitRegistry
    /\ InitDocument
    /\ InitPipeline
    /\ InitReporting
    /\ InitWatcher
    /\ InitScoring
    /\ InitClassifier
    /\ InitBackground
    /\ InitPlayer
    /\ InitBatch

AddCategory(name, selectors) ==
    /\ healthOps < MaxHealthOps
    /\ categories' = addCategory(categories, name, selectors)
    /\ lastCall' = Call("addCategory", NoValue, name, categories, NoMatch)
    /\ TrackStreaks(categories, categories', NoValue)

AddSelector(category, selector, priority) ==
    /\ healthOps < MaxHealthOps
    /\ categories' = addSelector(categories, category, selector, priority)
    /\ lastCall' = Call("addSelector", selector, category, categories, NoMatch)
    /\ TrackStreaks(categories, categories', NoValue)

UpdateFromConfig(config) ==
    /\ healthOps < MaxHealthOps
    /\ categories' = updateFromConfig(categories, config)
    /\ lastCall' = Call("updateFromConfig", config, NoValue, categories, NoMatch)
    /\ TrackStreaks(categories, categories', NoValue)

RecordSuccess(selector) ==
    /\ healthOps < MaxHealthOps
    /\ categories' = recordSuccess(categories, selector)
    /\ lastCall' = Call("recordSuccess", selector, NoValue, categories, NoMatch)
    /\ TrackStreaks(categories, categories', NoValue)

RecordFailure(selector) ==
    /\ healthOps < MaxHealthOps
    /\ \A c \in EntriesOf(categories, selector) : c.failureCount < MaxFailureCount
    /\ categories' = recordFailure(categories, selector)
    /\ lastCall' = Call("recordFailure", selector, NoValue, categories, NoMatch)
    /\ TrackStreaks(categories, categories', selector)

MatchesAny(n) ==
    /\ healthOps < MaxHealthOps
    /\ \E m \in {matchesAnySelector(categories, n)} :
          /\ categories' = m.cats
          /\ lastCall' = Call("matchesAny", n, NoValue, categories,
                              [matched |-> m.matched, selector |-> m.selector,
                               category |-> m.category, raised |-> m.raised])
    /\ TrackStreaks(categories, categories', NoValue)

NextRegistry ==
    \/ \E seed \in SeedCatalogs : AddCategory(seed.name, seed.selectors)
    \/ \E category \in {"remote", "data-attributes"} : AddSelector(category, ExtraPattern, 10)
    \/ \E config \in RemoteConfigs : UpdateFromConfig(config)
    \/ \E selector \in DrivenPatterns : RecordSuccess(selector)
    \/ \E selector \in DrivenPatterns : RecordFailure(selector)
    \/ \E n \in Nodes : MatchesAny(n)

SpecRegistry == Init /\ [][NextRegistry]_vars

(***************************************************************************)
(* The content script: the page changes, time passes, and the pipeline,    *)
(* the watcher callback, the video observer and the patched fetch / XHR    *)
(* report in any interleaving.                                             *)
(***************************************************************************)
ShortSteps == 2

MaxTime == Epoch + CacheTimeout + ShortSteps * TimeStep

\* the reason the watcher is taken to call back with
DrivenReason == "mutation-added"

\* what the video observer finds: [isPlaying, hasPlayer, texts, hrefs]
PlayerStates ==
    {[isPlaying |-> FALSE, hasPlayer |-> TRUE, texts |-> <<"sketchy-deals.xyz">>, hrefs |-> <<>>],
     [isPlaying |-> TRUE, hasPlayer |-> FALSE, texts |-> <<>>, hrefs |-> <<>>],
     [isPlaying |-> TRUE, hasPlayer |-> TRUE,
      texts |-> <<"sketchy-deals.xyz", "Skip Ad", "shop.example/deal">>,
      hrefs |-> <<"https://www.googleadservices.com/pagead/aclk?sa=L&adurl=https://shop.example/deal">>]}

Reporting ==
    [loggedUrls |-> loggedUrls, sent |-> sent, attempted |-> attempted,
     suppressed |-> suppressed]

SetReporting(st) ==
    /\ loggedUrls' = st.loggedUrls
    /\ sent' = st.sent
    /\ attempted' = st.attempted
    /\ suppressed' = st.suppressed

\* time passes: a short step, or a whole cache lifetime
Tick(d) ==
    /\ now + d <= MaxTime
    /\ d = TimeStep => ((now - Epoch) % CacheTimeout) + d <= ShortSteps * TimeStep
    /\ now' = now + d
    /\ lastRun' = NoRun
    /\ handedMin' = Scale
    /\ UNCHANGED <<attached, videoTime, regVars, callVars, classVars, visVars, detectionCache, lastRunTime, lastExec,
                   loggedUrls, sent, attempted, suppressed, watchVars, sideVars>>

PageAttach(n) ==
    /\ n \notin attached
    /\ NodeInfo[n].parent # NoValue => NodeInfo[n].parent \in attached
    /\ attached' = attached \cup {n}
    /\ lastRun' = NoRun
    /\ handedMin' = Scale
    /\ UNCHANGED <<now, videoTime, regVars, callVars, classVars, visVars, detectionCache, lastRunTime, lastExec,
                   loggedUrls, sent, attempted, suppressed, watchVars, sideVars>>

PageDetach(n) ==
    /\ n \in attached
    /\ attached' = {m \in attached : m # n /\ ~IsBelow(m, n)}
    /\ lastRun' = NoRun
    /\ handedMin' = Scale
    /\ UNCHANGED <<now, videoTime, regVars, callVars, classVars, visVars, detectionCache, lastRunTime, lastExec,
                   loggedUrls, sent, attempted, suppressed, watchVars, sideVars>>

\* [element, confidence] of each detection
Brief(detections) ==
    [i \in 1..Len(detections) |->
        [element |-> detections[i].element, confidence |-> detections[i].confidence]]

\* the function behind runPipeline: pipeline.run(), then processDetections
\* when run() returned something
RunPipeline ==
    \E r \in {run(lastRunTime, categories, detectionCache, attached, videoTime, now)} :
        /\ lastRunTime' = r.lastRunTime
        /\ categories' = r.cats
        /\ detectionCache' = r.cache
        /\ lastRun' = [called |-> TRUE,
                       sincePrev |-> now - lastExec,
                       throttled |-> r.throttled, threw |-> r.threw,
                       executed |-> r.executed, accumulated |-> Brief(r.accumulated),
                       returned |-> Brief(r.returned), healthSame |-> r.cats = categories,
                       appended |-> r.detections, kept |-> r.returned]
        /\ lastExec' = IF r.throttled THEN lastExec ELSE now
        /\ \E st \in {Reporting} :
               IF ~r.threw /\ Len(r.returned) > 0
               THEN /\ SetReporting(processDetections(st, r.returned, attached))
                    /\ handedMin' = MinConfidence(r.returned)
               ELSE /\ SetReporting(st)
                    /\ handedMin' = Scale
        /\ UNCHANGED <<streak, streakRate, healthOps, callVars, classVars, visVars, docVars, watchVars, sideVars>>

\* the watcher calls back with an element of the page
ElementDetected(n, reason) ==
    /\ n \in attached
    /\ \E h \in {handleElementDetected(Reporting, detectionCache, n, reason,
                                        attached, videoTime, now)} :
           /\ detectionCache' = h.cache
           /\ SetReporting(h.st)
           /\ handedMin' = MinConfidence(h.handed)
    /\ lastRun' = NoRun
    /\ UNCHANGED <<lastRunTime, lastExec, regVars, callVars, classVars, visVars, docVars, watchVars, sideVars>>

VideoAdDetected(isPlaying, hasPlayer, texts, hrefs) ==
    /\ SetReporting(handleVideoAdDetection(Reporting, isPlaying, hasPlayer, texts, hrefs))
    /\ lastRun' = NoRun
    /\ handedMin' = Scale
    /\ UNCHANGED <<detectionCache, lastRunTime, lastExec, regVars, callVars, classVars, visVars, docVars, watchVars, sideVars>>

Fetch(url) ==
    /\ SetReporting(InterceptRequest(Reporting, url, "fetch-extracted"))
    /\ lastRun' = NoRun
    /\ handedMin' = Scale
    /\ UNCHANGED <<detectionCache, lastRunTime, lastExec, regVars, callVars, classVars, visVars, docVars, watchVars, sideVars>>

XhrOpen(url) ==
    /\ SetReporting(InterceptRequest(Reporting, url, "xhr-extracted"))
    /\ lastRun' = NoRun
    /\ handedMin' = Scale
    /\ UNCHANGED <<detectionCache, lastRunTime, lastExec, regVars, callVars, classVars, visVars, docVars, watchVars, sideVars>>

\* the pipeline and the watcher callback on a changing page
NextPipeline ==
    \/ \E d \in {TimeStep, CacheTimeout} : Tick(d)
    \/ \E n \in Nodes : PageAttach(n)
    \/ \E n \in Nodes : PageDetach(n)
    \/ RunPipeline
    \/ \E n \in Nodes : ElementDetected(n, DrivenReason)

SpecPipeline == Init /\ [][NextPipeline]_vars

\* every caller of logAd, in any interleaving
NextReporting ==
    \/ \E n \in Nodes : PageAttach(n)
    \/ RunPipeline
    \/ \E n \in Nodes : ElementDetected(n, DrivenReason)
    \/ \E p \in PlayerStates : VideoAdDetected(p.isPlaying, p.hasPlayer, p.texts, p.hrefs)
    \/ \E url \in RequestUrls : Fetch(url)
    \/ \E url \in RequestUrls : XhrOpen(url)

SpecReporting == Init /\ [][NextReporting]_vars

(***************************************************************************)
(* The watcher on a changing page.  The detection callback is the          *)
(* constructor's parameter: its invocations are recorded in did.emitted.   *)
(* The page has a body (the content script starts the watcher only then),  *)
(* and visibleOnly is false, as the content script constructs the watcher, *)
(* so nothing is ever handed to the visibility observer.  A timer fires    *)
(* when it is due or up to MaxLate later.                                  *)
(***************************************************************************)
MaxNotifications == 3

MaxSmallSteps == 2

\* the watcher's own fields and the browser's subscriptions
subscriptionVars ==
    <<isRunning, generation, mutationObserver, intersectionObserver, scanIntervalId,
      connected>>

Elapse(timer, d) == IF timer.armed THEN [timer EXCEPT !.rem = @ - d] ELSE timer

\* the time left on every armed timer
ArmedRems ==
    {intervalT[g].rem : g \in {x \in Generations : intervalT[x].armed}}
    \cup {debounceT[g].timer.rem : g \in {x \in Generations : debounceT[x].timer.armed}}
    \cup {throttleT[g].timer.rem : g \in {x \in Generations : throttleT[x].timer.armed}}

Advance(d) ==
    /\ d > 0
    /\ d \notin ArmedRems => smallSteps < MaxSmallSteps
    /\ smallSteps' = IF d \in ArmedRems THEN smallSteps ELSE smallSteps + 1
    /\ \A r \in ArmedRems : r - d >= -MaxLate
    /\ intervalT' = [g \in Generations |-> Elapse(intervalT[g], d)]
    /\ debounceT' = [g \in Generations |-> [debounceT[g] EXCEPT !.timer = Elapse(@, d)]]
    /\ throttleT' = [g \in Generations |-> [throttleT[g] EXCEPT !.timer = Elapse(@, d)]]
    /\ sinceExec' = [g \in Generations |-> Min(ScanInterval, sinceExec[g] + d)]
    /\ did' = Idle("advance")
    /\ UNCHANGED <<subscriptionVars, notified, regVars, callVars, classVars, visVars, docVars, pipeVars, reportVars, sideVars>>

\* what the watcher knows of visibility in the current state
Seen == Visibility(visibleOnly, visibleElements, intersectionObserver # 0)

\* start() on a host: observers, interval and closures of a new generation,
\* then the initial scan.  start() catches nothing: where a constructor
\* raises, the statements after it are not executed and the error leaves
\* start()
StartOn(host) ==
    IF AlreadyRunning(isRunning)
    THEN /\ did' = Idle("start-running")
         /\ UNCHANGED <<subscriptionVars, intervalT, debounceT, throttleT, sinceExec,
                        notified, smallSteps, regVars, callVars, classVars, visVars,
                        docVars, pipeVars, reportVars, sideVars>>
    ELSE /\ generation < MaxStarts
         /\ isRunning' = TRUE
         /\ generation' = generation + 1
         /\ debounceT' = [debounceT EXCEPT ![generation + 1] = NoDebounce]
         /\ startOutcome' = [host |-> host, raised |-> host # FullHost]
         /\ IF host = "no-change-observer"
            THEN /\ did' = Idle("start")
                 /\ UNCHANGED <<mutationObserver, intersectionObserver, scanIntervalId,
                                connected, intervalT, throttleT, categories, observing, sideVars>>
            ELSE IF host = "no-visibility-observer"
            THEN /\ mutationObserver' = generation + 1
                 /\ connected' = connected \cup {<<"change", generation + 1>>}
                 /\ did' = Idle("start")
                 /\ UNCHANGED <<intersectionObserver, scanIntervalId, intervalT, throttleT,
                                categories, observing, sideVars>>
            ELSE /\ mutationObserver' = generation + 1
                 /\ intersectionObserver' = generation + 1
                 /\ scanIntervalId' = generation + 1
                 /\ connected' = connected \cup {<<"change", generation + 1>>,
                                                  <<"visibility", generation + 1>>}
                 /\ intervalT' = [intervalT EXCEPT ![generation + 1] = Timer(ScanInterval)]
                 /\ throttleT' = [throttleT EXCEPT ![generation + 1] = NoThrottle]
                 /\ \E s \in {performFullScan(TRUE, categories, attached,
                                               Visibility(visibleOnly, visibleElements, TRUE))} :
                        /\ categories' = s.cats
                        /\ observing' = observing \cup s.observed
                        /\ did' = Did("start", s.emitted, s.healthCalls, s.scanned,
                                      NoPass, ScanInterval)
         /\ UNCHANGED <<sinceExec, notified, smallSteps, streak, streakRate, healthOps,
                        callVars, classVars, visibleOnly, visibleElements,
                        docVars, pipeVars, reportVars, sideVars>>

\* start() where the host provides both observers
Start == StartOn(FullHost)

\* stop()
Stop ==
    /\ isRunning' = FALSE
    /\ connected' = {c \in connected :
                        /\ c # <<"change", mutationObserver>>
                        /\ c # <<"visibility", intersectionObserver>>}
    /\ mutationObserver' = 0
    /\ intersectionObserver' = 0
    /\ intervalT' = [g \in Generations |->
                        IF g = scanIntervalId THEN NoTimer ELSE intervalT[g]]
    /\ scanIntervalId' = 0
    /\ visibleElements' = {}
    /\ observing' = {}
    /\ did' = Idle("stop")
    /\ UNCHANGED <<generation, debounceT, throttleT, sinceExec, notified, smallSteps,
                   visibleOnly, startOutcome,
                   regVars, callVars, classVars, docVars, pipeVars, reportVars, sideVars>>

\* the browser calls every connected change observer with the records
Notify(mutations) ==
    /\ notified < MaxNotifications
    /\ notified' = notified + 1
    /\ debounceT' = [g \in Generations |->
                        IF <<"change", g>> \in connected
                        THEN debounced(debounceT[g], mutations) ELSE debounceT[g]]

\* the page adds an element
PageAdds(n) ==
    /\ n \notin attached
    /\ NodeInfo[n].parent # NoValue => NodeInfo[n].parent \in attached
    /\ attached' = attached \cup {n}
    /\ Notify(<<ChildList(<<n>>)>>)
    /\ did' = Idle("page")
    /\ UNCHANGED <<subscriptionVars, intervalT, throttleT, sinceExec, smallSteps,
                   now, videoTime, regVars, callVars, classVars, visVars, pipeVars, reportVars, sideVars>>

\* the page sets one of the watched attributes of an element
PageSetsAttribute(n) ==
    /\ n \in attached
    /\ Notify(<<Attributes(n)>>)
    /\ did' = Idle("page")
    /\ UNCHANGED <<subscriptionVars, intervalT, throttleT, sinceExec, smallSteps,
                   regVars, callVars, classVars, visVars, docVars, pipeVars, reportVars, sideVars>>

\* the timer of a debounce closure fires: the change handler runs on the
\* arguments of the last call
DebounceFire(g) ==
    /\ IsDue(debounceT[g].timer)
    /\ \E h \in {handleMutations(isRunning, categories, debounceT[g].args, attached, Seen)} :
           /\ categories' = h.cats
           /\ observing' = observing \cup h.observed
           /\ did' = Did("debounce", h.emitted, h.healthCalls, FALSE,
                         [ran |-> isRunning, records |-> debounceT[g].args,
                          burst |-> debounceT[g].burst, tight |-> debounceT[g].tight,
                          live |-> <<"change", g>> \in connected],
                         ScanInterval)
    /\ debounceT' = [debounceT EXCEPT ![g] = NoDebounce]
    /\ UNCHANGED <<subscriptionVars, intervalT, throttleT, sinceExec, notified,
                   smallSteps, streak, streakRate, healthOps, callVars, classVars,
                   visibleOnly, visibleElements, startOutcome, docVars, pipeVars,
                   reportVars, sideVars>>

\* the wrapped function of throttle, () => this.performFullScan(), when ran
WrappedScan(g, ran, op) ==
    IF ran
    THEN /\ \E s \in {performFullScan(isRunning, categories, attached, Seen)} :
                /\ categories' = s.cats
                /\ observing' = observing \cup s.observed
                /\ did' = Did(op, s.emitted, s.healthCalls, s.scanned, NoPass, sinceExec[g])
         /\ sinceExec' = [sinceExec EXCEPT ![g] = 0]
    ELSE /\ did' = Idle(op)
         /\ UNCHANGED <<categories, sinceExec, observing, sideVars>>

\* a tick of setInterval: the browser re-arms the timer, from the time the
\* tick was due or from the time it fired, and calls the throttled scan
IntervalFire(g) ==
    /\ IsDue(intervalT[g])
    /\ \E next \in {ScanInterval, ScanInterval + intervalT[g].rem} :
           intervalT' = [intervalT EXCEPT ![g] = Timer(next)]
    /\ \E c \in {throttled(throttleT[g])} :
           /\ throttleT' = [throttleT EXCEPT ![g] = c.th]
           /\ WrappedScan(g, c.ran, "interval")
    /\ UNCHANGED <<subscriptionVars, debounceT, notified, smallSteps,
                   streak, streakRate, healthOps, callVars, classVars,
                   visibleOnly, visibleElements, startOutcome, docVars, pipeVars, reportVars, sideVars>>

\* the timer of a throttle closure fires
ThrottleFire(g) ==
    /\ IsDue(throttleT[g].timer)
    /\ \E c \in {throttleTimeout(throttleT[g])} :
           /\ throttleT' = [throttleT EXCEPT ![g] = c.th]
           /\ WrappedScan(g, c.ran, "throttle")
    /\ UNCHANGED <<subscriptionVars, intervalT, debounceT, notified, smallSteps,
                   streak, streakRate, healthOps, callVars, classVars,
                   visibleOnly, visibleElements, startOutcome, docVars, pipeVars, reportVars, sideVars>>

NextWatcher ==
    \/ Start
    \/ Stop
    \/ \E n \in Nodes : PageAdds(n)
    \/ \E n \in Nodes : PageSetsAttribute(n)
    \/ \E g \in Generations : DebounceFire(g)
    \/ \E g \in Generations : IntervalFire(g)
    \/ \E g \in Generations : ThrottleFire(g)
    \/ \E d \in {TimeStep} \cup ArmedRems : Advance(d)

SpecWatcher == Init /\ [][NextWatcher]_vars

(***************************************************************************)
(* The watcher on hosts that lack an observer constructor.                 *)
(***************************************************************************)
NextHost ==
    \/ \E host \in Hosts : StartOn(host)
    \/ Stop
    \/ \E n \in Nodes : PageAttach(n)
    \/ \E g \in Generations : IntervalFire(g)
    \/ \E g \in Generations : ThrottleFire(g)
    \/ \E d \in {TimeStep} \cup ArmedRems : Advance(d)

SpecHost == Init /\ [][NextHost]_vars

(***************************************************************************)
(* The watcher constructed with visibleOnly: true.  The browser reports a  *)
(* target of the visibility observer as intersecting or not, one entry per *)
(* notification.                                                           *)
(***************************************************************************)
\* new ObserverManager(callback, {visibleOnly: true})
Configure ==
    /\ generation = 0
    /\ ~isRunning
    /\ ~visibleOnly
    /\ visibleOnly' = TRUE
    /\ did' = Idle("construct")
    /\ UNCHANGED <<visibleElements, observing, startOutcome, subscriptionVars, intervalT,
                   debounceT, throttleT, sinceExec, notified, smallSteps,
                   regVars, callVars, classVars, docVars, pipeVars, reportVars, sideVars>>

\* the callback of the visibility observer for one entry
VisibilityNotify(n, isIntersecting) ==
    /\ intersectionObserver # 0
    /\ <<"visibility", intersectionObserver>> \in connected
    /\ n \in observing
    /\ isIntersecting => n \in attached
    /\ notified < MaxNotifications
    /\ notified' = notified + 1
    /\ IF isIntersecting
       THEN /\ visibleElements' = visibleElements \cup {n}
            /\ \E r \in {processElement(
                            Acc(categories,
                                Visibility(visibleOnly, visibleElements \cup {n}, TRUE)),
                            n, "intersection-visible", attached)} :
                   /\ categories' = r.cats
                   /\ observing' = observing \cup r.observed
                   /\ did' = Did("visibility", r.emitted, r.healthCalls, FALSE,
                                 [ran |-> FALSE, target |-> n, isIntersecting |-> TRUE],
                                 ScanInterval)
       ELSE /\ visibleElements' = visibleElements \ {n}
            /\ did' = Did("visibility", <<>>, 0, FALSE,
                          [ran |-> FALSE, target |-> n, isIntersecting |-> FALSE],
                          ScanInterval)
            /\ UNCHANGED <<categories, observing, sideVars>>
    /\ UNCHANGED <<visibleOnly, startOutcome, subscriptionVars, intervalT, debounceT,
                   throttleT, sinceExec, smallSteps, streak, streakRate, healthOps,
                   callVars, classVars, docVars, pipeVars, reportVars, sideVars>>

NextVisibility ==
    \/ Configure
    \/ /\ visibleOnly
       /\ \/ Start
          \/ Stop
          \/ \E n \in Nodes : PageAdds(n)
          \/ \E g \in Generations : DebounceFire(g)
          \/ \E g \in Generations : IntervalFire(g)
          \/ \E g \in Generations : ThrottleFire(g)
          \/ \E n \in Nodes : \E isIntersecting \in BOOLEAN : VisibilityNotify(n, isIntersecting)
          \/ \E d \in {TimeStep} \cup ArmedRems : Advance(d)

SpecVisibility == Init /\ [][NextVisibility]_vars

(***************************************************************************)
(* calculateConfidence driven directly: evidence lists of every length up  *)
(* to MaxEvidence over tokens of every kind, duplicates included.          *)
(***************************************************************************)
MaxEvidence == 3

\* keys of the weight table, a key below the default weight, a token with
\* no key and no key prefix, a token with no key that VisualAnalysisStep emits
ScoredTokens ==
    {"api:getAdState=1", "player-class:ad-showing", "element:ytp-ad-skip-button",
     "content:aria-label-domain", "network:ad-service-url", "selector:[id*=\"ad-\"]",
     "detected:periodic-scan", "element:ad-badge"}

ScoreOf(evidence) ==
    [evidence |-> evidence, weights |-> Weights(evidence),
     strong |-> [i \in 1..Len(evidence) |-> StrongOf(evidence[i])],
     confidence |-> calculateConfidence(evidence), called |-> TRUE]

\* calculateConfidence([])
ScoreNothing ==
    /\ scored' = ScoreOf(<<>>)
    /\ UNCHANGED <<lastCall, classVars, visVars, regVars, docVars, pipeVars, reportVars, watchVars, sideVars>>

\* calculateConfidence of the last list with one more token
ScoreWith(token) ==
    /\ Len(scored.evidence) < MaxEvidence
    /\ scored' = ScoreOf(Append(scored.evidence, token))
    /\ UNCHANGED <<lastCall, classVars, visVars, regVars, docVars, pipeVars, reportVars, watchVars, sideVars>>

NextScoring ==
    \/ ScoreNothing
    \/ \E token \in ScoredTokens : ScoreWith(token)

SpecScoring == Init /\ [][NextScoring]_vars

(***************************************************************************)
(* The pipeline on a page whose elements several patterns match: the       *)
(* registry gains a pattern (addSelector) between runs.                    *)
(***************************************************************************)
NextCatalogPipeline ==
    \/ \E d \in {TimeStep, CacheTimeout} : Tick(d)
    \/ \E n \in Nodes : PageAttach(n)
    \/ RunPipeline
    \/ AddSelector("data-attributes", ExtraPattern, 10)

SpecCatalogPipeline == Init /\ [][NextCatalogPipeline]_vars

(***************************************************************************)
(* AdClassifier.classify driven directly while time passes, and            *)
(* classifyAdType driven directly on elements of every kind.               *)
(***************************************************************************)
MaxClassifies == 3

\* classify is called with HTMLElements only
ClassifiedNodes == {n \in Nodes : NodeInfo[n].html}

\* evidence lists as the callers build them: DomSelectorStep pushes the
\* selector token once per matched element (so a list can repeat a token),
\* handleElementDetected passes one detected: token
ClassifyInputs ==
    { <<>>,
      <<"selector:[data-ad-id]", "selector:[data-ad-id]", "attribute:data-ad-id">>,
      <<"selector:[data-ad-id]", "attribute:data-ad-id">>,
      <<"attribute:data-ad-id">>,
      <<"detected:mutation-added">>,
      <<"selector:ytd-in-feed-ad-layout-renderer", "detected:mutation-added">> }

Classify(n, evidence) ==
    /\ classified.count < MaxClassifies
    /\ \E r \in {classify(detectionCache, n, evidence, videoTime, now)} :
          /\ detectionCache' = r.cache
          /\ classified' = [called |-> TRUE, count |-> classified.count + 1,
                            element |-> n, evidence |-> evidence,
                            before |-> detectionCache[n], result |-> r.result,
                            at |-> now]
    /\ UNCHANGED <<typed, visVars, lastRunTime, lastRun, lastExec, regVars, callVars, docVars,
                   reportVars, watchVars, sideVars>>

NextClassifier ==
    \/ \E d \in {TimeStep, CacheTimeout} : Tick(d)
    \/ \E n \in ClassifiedNodes : \E evidence \in ClassifyInputs : Classify(n, evidence)

SpecClassifier == Init /\ [][NextClassifier]_vars

TypedClasses == {"", "ytp-ad-overlay banner-slot", "promoted display"}

TypedTags == {"div", "ytd-display-ad-renderer", "ytd-promoted-sparkles-web-renderer"}

TypedEvidence ==
    { <<"detected:periodic-scan">>,
      <<"api:getAdState=1", "selector:.ytp-ad-overlay-slot", "network:ad-service-url">>,
      <<"player-class:ad-interrupting">>,
      <<"selector:ytd-banner-promo-renderer", "selector:.ytp-ad-overlay-slot">>,
      <<"selector:ytd-promoted-sparkles-web-renderer", "selector:ytd-banner-promo-renderer">>,
      <<"selector:ytd-display-ad-renderer", "class:promoted">>,
      <<"network:ad-service-url", "selector:ytd-display-ad-renderer">>,
      <<"network:ad-service-url">>,
      <<"element:ytd-promoted-sparkles-web-renderer">> }

\* document.querySelector('video'): none (-1), or its currentTime in seconds
TypedVideos == {-1, 2, 5}

ClassifyType(className, tagName, evidence, video) ==
    /\ typed' = [called |-> TRUE, className |-> className, tagName |-> tagName,
                 evidence |-> evidence, video |-> video,
                 type |-> TypeOfElement(className, tagName, evidence, video)]
    /\ UNCHANGED <<classified, visVars, regVars, callVars, docVars, pipeVars, reportVars, watchVars, sideVars>>

NextTyping ==
    \E className \in TypedClasses : \E tagName \in TypedTags :
       \E evidence \in TypedEvidence : \E video \in TypedVideos :
          ClassifyType(className, tagName, evidence, video)

SpecTyping == Init /\ [][NextTyping]_vars

(***************************************************************************)
(* The watcher's callback of the content script on elements the pipeline   *)
(* has or has not classified, while cache entries expire.                  *)
(***************************************************************************)
NextDelivery ==
    \/ Tick(CacheTimeout)
    \/ \E n \in Nodes : PageAttach(n)
    \/ RunPipeline
    \/ \E n \in Nodes : ElementDetected(n, DrivenReason)

SpecDelivery == Init /\ [][NextDelivery]_vars

(***************************************************************************)
(* A catalog that holds a pattern the accessor rejects, under everything   *)
(* that touches pattern health by itself: the watcher's scans and change   *)
(* handler, matchesAnySelector and the pipeline.  The pattern enters the   *)
(* catalog once, and every pattern text occurs once in the catalog.        *)
(***************************************************************************)
\* the catalog update that puts the rejected pattern first
RejectedFirst ==
    CHOOSE seed \in SeedCatalogs : seed.name = "in-feed-ads"

NextExclusion ==
    \/ (EntriesOf(categories, BadPattern) = {}
           /\ AddCategory(RejectedFirst.name, RejectedFirst.selectors))
    \/ MatchesAny("svgIcon")
    \/ Start
    \/ PageAdds("svgIcon")
    \/ \E g \in Generations : DebounceFire(g)
    \/ \E g \in Generations : IntervalFire(g)
    \/ \E g \in Generations : ThrottleFire(g)
    \/ \E d \in ArmedRems : Advance(d)
    \/ RunPipeline

SpecExclusion == Init /\ [][NextExclusion]_vars

(***************************************************************************)
(* The background worker: messages arrive while the read of the stored     *)
(* log, issued when the worker starts, is still outstanding.               *)
(***************************************************************************)
\* the callback of chrome.storage.local.get(['adLog'], ...) runs: the read
\* was issued before every write of the listener, the browser may serve it
\* before or after them
LoadCompletes ==
    /\ loadPending
    /\ loadPending' = FALSE
    /\ \E result \in {StoredAtStartup, storedLog} : adLog' = result
    /\ reply' = Reply("load", NoValue, NoValue, TRUE)
    /\ UNCHANGED <<storedLog, expected, engineVars, playerVars, batchVars>>

\* a logAdElement message is handled
LogAdElement(adInfo) ==
    /\ \E r \in {logAdElement(adLog, storedLog, CleanedCache[adInfo.url], adInfo)} :
           /\ adLog' = r.adLog
           /\ storedLog' = r.storedLog
           /\ expected' = IF r.success
                          THEN (expected \cup {r.cleaned}) \cap LoggedUrls(r.adLog)
                          ELSE expected
           /\ reply' = Reply("logAdElement", adInfo.url, r.cleaned, r.success)
    /\ UNCHANGED <<loadPending, engineVars, playerVars, batchVars>>

\* a clearAdLog message is handled
ClearAdLog ==
    /\ adLog' = <<>>
    /\ storedLog' = <<>>
    /\ expected' = {}
    /\ reply' = Reply("clearAdLog", NoValue, NoValue, TRUE)
    /\ UNCHANGED <<loadPending, engineVars, playerVars, batchVars>>

NextBackground ==
    \/ LoadCompletes
    \/ \E adInfo \in Messages : LogAdElement(adInfo)
    \/ ClearAdLog

SpecBackground == Init /\ [][NextBackground]_vars

(***************************************************************************)
(* The video player observer: its actions.                                 *)
(***************************************************************************)
\* the page changes what it shows of the player
PageShows(next) ==
    /\ next # playerPage
    /\ playerPage' = next
    /\ checked' = NotChecked("page")
    /\ UNCHANGED <<lastState, intervalId, checkTimers, timersMade, engineVars, bgVars, batchVars>>

\* VideoPlayerObserver.start(): stop(), then setInterval
PlayerStart ==
    /\ timersMade < MaxTimers
    /\ timersMade' = timersMade + 1
    /\ intervalId' = timersMade + 1
    /\ checkTimers' = (checkTimers \ {intervalId}) \cup {timersMade + 1}
    /\ checked' = NotChecked("start")
    /\ UNCHANGED <<playerPage, lastState, engineVars, bgVars, batchVars>>

\* VideoPlayerObserver.stop()
PlayerStop ==
    /\ checkTimers' = checkTimers \ {intervalId}
    /\ intervalId' = 0
    /\ checked' = NotChecked("stop")
    /\ UNCHANGED <<playerPage, lastState, timersMade, engineVars, bgVars, batchVars>>

\* a tick of an active check timer
CheckFires(id) ==
    /\ id \in checkTimers
    /\ \E c \in {checkPlayer(playerPage, lastState)} :
           /\ lastState' = c.lastState
           /\ checked' = c.checked
    /\ UNCHANGED <<playerPage, intervalId, checkTimers, timersMade, engineVars, bgVars, batchVars>>

NextPlayer ==
    \/ \E next \in Pages : PageShows(next)
    \/ PlayerStart
    \/ PlayerStop
    \/ \E id \in 1..MaxTimers : CheckFires(id)

SpecPlayer == Init /\ [][NextPlayer]_vars

(***************************************************************************)
(* The batch: its actions.                                                 *)
(***************************************************************************)
\* scheduleFlush
ScheduleFlush ==
    /\ scheduled' = TRUE
    /\ frameRequests' = IF scheduled THEN frameRequests ELSE frameRequests + 1

\* BatchOperations.read(fn), called from outside a flush
BatchRead(effect) ==
    /\ batchCalls < MaxBatchCalls
    /\ batchCalls' = batchCalls + 1
    /\ pendingReads' = Append(pendingReads, Operation(batchCalls + 1, effect))
    /\ ScheduleFlush
    /\ UNCHANGED <<pendingWrites, batchRun, flushOrder, engineVars, bgVars, playerVars>>

\* BatchOperations.write(fn), called from outside a flush
BatchWrite(effect) ==
    /\ batchCalls < MaxBatchCalls
    /\ batchCalls' = batchCalls + 1
    /\ pendingWrites' = Append(pendingWrites, Operation(batchCalls + 1, effect))
    /\ ScheduleFlush
    /\ UNCHANGED <<pendingReads, batchRun, flushOrder, engineVars, bgVars, playerVars>>

\* the browser runs a requested animation frame callback: flush()
AnimationFrame ==
    /\ frameRequests > 0
    /\ frameRequests' = frameRequests - 1
    /\ \E f \in {flush(pendingReads, pendingWrites)} :
           /\ pendingReads' = f.reads
           /\ pendingWrites' = f.writes
           /\ flushOrder' = f.order
           /\ batchRun' = batchRun \cup {f.order[i][2] : i \in 1..Len(f.order)}
    /\ scheduled' = FALSE
    /\ UNCHANGED <<batchCalls, engineVars, bgVars, playerVars>>

NextBatch ==
    \/ \E effect \in OpEffects : BatchRead(effect)
    \/ \E effect \in OpEffects : BatchWrite(effect)
    \/ AnimationFrame

\* the browser runs every requested animation frame callback
SpecBatch == Init /\ [][NextBatch]_vars /\ WF_vars(AnimationFrame)

(***************************************************************************)
(* C1.  One message per (url, source).                                     *)
(***************************************************************************)
MessagesFor(pair) == {m \in BagToSet(sent) : m.url = pair[1] /\ m.source = pair[2]}

\* C1: whatever the callers of logAd and their interleaving, exactly one
\* message was sent for every (url, source) pair logAd was called with and
\* none for any other pair, and the set of seen keys holds exactly one key
\* per attempted pair: the first attempt of a pair is sent and recorded,
\* every later one is suppressed and leaves the keys as they were.
C1_OneMessagePerPair ==
    /\ \A m \in BagToSet(sent) : <<m.url, m.source>> \in attempted /\ CopiesIn(m, sent) = 1
    /\ \A pair \in attempted : Cardinality(MessagesFor(pair)) = 1
    /\ loggedUrls = {UrlKey(pair[1], pair[2]) : pair \in attempted}
    /\ Cardinality(loggedUrls) = Cardinality(attempted)

\* a repeated attempt was suppressed, and its pair has its one message
C1_Witness ==
    /\ suppressed # <<>>
    /\ suppressed \in attempted
    /\ Cardinality(MessagesFor(suppressed)) = 1
    /\ Cardinality(attempted) > 1

(***************************************************************************)
(* C2.  Nothing below the confidence threshold is returned or reported.    *)
(***************************************************************************)
ElementSources == {"aria-label", "data-attribute", "link-href", "image-src"}

\* C2: every candidate run() returns, every candidate handed to
\* processDetections by runPipeline or handleElementDetected, and every
\* message reported for a classified element has confidence >= 0.6.
C2_NothingBelowThreshold ==
    /\ \A i \in 1..Len(lastRun.returned) :
           lastRun.returned[i].confidence >= ConfidenceThreshold
    /\ handedMin >= ConfidenceThreshold
    /\ \A m \in BagToSet(sent) :
           m.source \in ElementSources => m.confidence >= ConfidenceThreshold

\* the classifier has scored an element below the threshold (it is in the
\* cache), while reports of confident candidates were sent
C2_Witness ==
    /\ \E n \in Nodes :
           /\ detectionCache[n] # NoEntry
           /\ detectionCache[n].confidence < ConfidenceThreshold
    /\ \E m \in BagToSet(sent) : m.source \in ElementSources

(***************************************************************************)
(* C3.  The pipeline throttle.                                             *)
(***************************************************************************)
\* C3: a run() called less than 100 ms after the previous non-throttled
\* run() started returns nothing, executes no stage and leaves every
\* pattern health record as it was.
C3_ThrottledRunDoesNothing ==
    (lastRun.called /\ lastRun.sincePrev < MinInterval)
        => /\ lastRun.returned = <<>>
           /\ lastRun.executed = <<>>
           /\ lastRun.healthSame

\* a run() 50 ms after a run that executed, on a page with ad elements
C3_Witness ==
    /\ lastRun.called
    /\ lastRun.sincePrev > 0
    /\ lastRun.sincePrev < MinInterval
    /\ "feedAd" \in attached

(***************************************************************************)
(* C4.  A stage that throws.                                               *)
(***************************************************************************)
\* C4 (as claimed): when a stage throws, the error stays inside run(): all
\* stages are still executed in order and run() returns the candidates
\* accumulated by the stages that completed.
C4_ThrowIsContained ==
    (lastRun.called /\ lastRun.threw)
        => /\ lastRun.executed = Steps
           /\ lastRun.returned = lastRun.accumulated

(***************************************************************************)
(* C5.  A burst of change notifications.                                   *)
(***************************************************************************)
\* C5 (as claimed): the pass that follows a burst of notifications, each
\* less than debounceMs after the one before, processes every record of
\* every notification of the burst.
C5_PassGetsWholeBurst ==
    (did.op = "debounce" /\ did.pass.ran /\ did.pass.tight)
        => did.pass.records = did.pass.burst

(***************************************************************************)
(* C6.  stop().                                                            *)
(***************************************************************************)
Quiet == did.emitted = <<>> /\ did.healthCalls = 0 /\ ~did.scanned

Released ==
    /\ connected = {}
    /\ mutationObserver = 0
    /\ intersectionObserver = 0
    /\ scanIntervalId = 0
    /\ \A g \in Generations : ~intervalT[g].armed

\* C6: while the watcher is stopped its subscriptions and its periodic
\* timer are released, and no step (a pending debounce or throttle timer
\* firing included) invokes the callback, runs a scan body or changes a
\* health record; a stop() of a stopped watcher changes nothing.
C6_StoppedIsQuiet ==
    /\ [](~isRunning => (Released /\ Quiet))
    /\ [][(~isRunning /\ ~isRunning') =>
             /\ categories' = categories
             /\ (did'.op = "stop" =>
                    UNCHANGED <<subscriptionVars, intervalT, debounceT, throttleT>>)]_vars

\* after a stop(), a timer that was pending has fired: the debounce timer
\* with its batch, or the throttle timer
C6_Witness ==
    /\ ~isRunning
    /\ generation > 0
    /\ did.op \in {"debounce", "throttle"}

(***************************************************************************)
(* C7.  start() after stop().                                              *)
(***************************************************************************)
\* C7: a running watcher holds exactly one change subscription, one
\* visibility subscription and one periodic timer, those of its fields,
\* however many start() and stop() calls came before; and a start() after
\* a stop() runs a full scan at once.
C7_OneOfEach ==
    /\ isRunning =>
           /\ connected = {<<"change", mutationObserver>>,
                           <<"visibility", intersectionObserver>>}
           /\ {g \in Generations : intervalT[g].armed} = {scanIntervalId}
    /\ (did.op = "start" /\ generation > 1) => did.scanned

\* a second start(), after a stop(), whose immediate scan found ad elements
C7_Witness ==
    /\ isRunning
    /\ generation = 2
    /\ did.op = "start"
    /\ did.scanned
    /\ did.emitted # <<>>

(***************************************************************************)
(* C8.  The throttled periodic scan.                                       *)
(***************************************************************************)
\* C8 (as claimed): two executions of the function a throttle closure
\* wraps are at least scanInterval (2000 ms) apart.
C8_OnePerInterval ==
    did.gap >= ScanInterval

(***************************************************************************)
(* C9.  Exclusion under consecutive failures.                              *)
(***************************************************************************)
\* C9 (as claimed): a pattern that was active with failureCount 0 is still
\* returned by getActivePatterns after each of the first 4 consecutive
\* recordFailure calls and is absent after the 5th and every later one,
\* whatever its successRate was.
C9_ExcludedAfterExactlyFive ==
    \A p \in DrivenPatterns :
        /\ streak[p] \in 1..4 => IsReturned(categories, p)
        /\ streak[p] >= 5 => ~IsReturned(categories, p)

\* C9 (amended): such a pattern is absent after the 5th consecutive
\* recordFailure and every later one, and it is still returned after each of
\* the first 4 when its successRate at the start of the streak was at
\* least 0.46 (0.46 x 0.9^4 >= 0.3); with a lower successRate the
\* minSuccessRate test excludes it earlier.
C9_ExcludedAfterAtMostFive ==
    \A p \in DrivenPatterns :
        /\ streak[p] >= 5 => ~IsReturned(categories, p)
        /\ (streak[p] \in 1..4 /\ streakRate[p] * 100 >= 46 * Scale)
              => IsReturned(categories, p)

\* a pattern that started at successRate 1 has failed 6 times in a row: it
\* is absent although its successRate is still above minSuccessRate
C9_Witness ==
    \E p \in DrivenPatterns :
        /\ streak[p] = 6
        /\ streakRate[p] = Scale
        /\ ~IsReturned(categories, p)
        /\ \A c \in EntriesOf(categories, p) : c.successRate >= MinSuccessRate

(***************************************************************************)
(* C10.  getActivePatterns returns exactly the active entries.             *)
(***************************************************************************)
\* the places (category index, entry index) of the entries with pattern p
\* that satisfy failureCount < 5 and successRate >= 0.3
ActivePlaces(cats, catIdxs, p) ==
    {<<c, i>> \in catIdxs \X (1..10) :
        /\ i <= Len(cats[c].selectors)
        /\ cats[c].selectors[i].selector = p
        /\ cats[c].selectors[i].failureCount < 5
        /\ cats[c].selectors[i].successRate * 10 >= 3 * Scale}

Occurrences(seq, p) == Cardinality({i \in 1..Len(seq) : seq[i] = p})

ReturnsExactly(seq, cats, catIdxs) ==
    /\ Range(seq) \subseteq Patterns
    /\ \A p \in Patterns :
          Occurrences(seq, p) = Cardinality(ActivePlaces(cats, catIdxs, p))

\* C10: in every reachable registry state getActivePatterns, for all
\* categories and for each single category, returns exactly the patterns of
\* the entries with failureCount < 5 and successRate >= 0.3.
C10_ActiveExactly ==
    /\ ReturnsExactly(getAllActiveSelectors(categories), categories,
                      1..Len(categories))
    /\ \A name \in CategoryNames \cup {"no-such-category"} :
          ReturnsExactly(getCategorySelectors(categories, name), categories,
                         {c \in 1..Len(categories) : categories[c].name = name})

\* one entry is excluded by its failure count alone, another by its success
\* rate alone, and a third is returned
C10_Witness ==
    \E a, b, c \in Range(AllConfigs(categories)) :
        /\ a.failureCount >= 5 /\ a.successRate >= MinSuccessRate
        /\ b.failureCount < 5 /\ b.successRate < MinSuccessRate
        /\ c.failureCount \in 1..4 /\ c.successRate >= MinSuccessRate
        /\ c.selector \in Range(getAllActiveSelectors(categories))

(***************************************************************************)
(* C11.  A match attempt that raises.                                      *)
(***************************************************************************)
\* failureCount + 1 and successRate x 0.9 for every entry whose text is in ps
FailedEntries(configs, ps) ==
    [i \in 1..Len(configs) |->
        IF configs[i].selector \in ps
        THEN [configs[i] EXCEPT !.failureCount = configs[i].failureCount + 1,
                                !.successRate = (configs[i].successRate * 9) \div 10]
        ELSE configs[i]]

FailedEverywhere(cats, ps) ==
    [c \in 1..Len(cats) |->
        [name |-> cats[c].name, selectors |-> FailedEntries(cats[c].selectors, ps)]]

\* some entry the loop may test matches the node
SomeEntryMatches(cats, n) ==
    \E config \in Range(AllConfigs(cats)) :
        /\ config.failureCount < 5
        /\ ~IsMalformed(config.selector)
        /\ ElementMatches(n, config.selector)

\* C11 (as claimed): when the match attempt of a pattern raises inside
\* matchesAny, the registry afterwards is the one recordFailure of that
\* pattern would leave (failureCount + 1 and successRate x 0.9 for every
\* entry with that text), and the evaluation goes on: the call still reports
\* a match when a later pattern matches the node.
C11_RaiseIsRecordedFailure ==
    (lastCall.op = "matchesAny" /\ lastCall.result.raised # <<>>)
        => /\ categories = FailedEverywhere(lastCall.before, Range(lastCall.result.raised))
           /\ lastCall.result.matched = SomeEntryMatches(lastCall.before, lastCall.arg)

(***************************************************************************)
(* C12.  matchesAny and inactive entries.                                  *)
(***************************************************************************)
\* C12 (as claimed): a pattern matchesAny reports as the match is one
\* getActivePatterns returned at the time of the call, and matchesAny
\* leaves every entry with successRate < 0.3 or failureCount >= 5 as it was.
C12_MatchesActiveOnly ==
    lastCall.op = "matchesAny"
        => /\ lastCall.result.matched
                => lastCall.result.selector \in Range(getAllActiveSelectors(lastCall.before))
           /\ \A c \in 1..Len(lastCall.before) :
                 \A i \in 1..Len(lastCall.before[c].selectors) :
                    (\/ lastCall.before[c].selectors[i].successRate * 10 < 3 * Scale
                     \/ lastCall.before[c].selectors[i].failureCount >= 5)
                        => categories[c].selectors[i] = lastCall.before[c].selectors[i]

(***************************************************************************)
(* C13.  recordSuccess.                                                    *)
(***************************************************************************)
\* failureCount' = max(0, failureCount - 1), successRate' = min(1, successRate x 1.1)
SucceededEntries(configs, p) ==
    [i \in 1..Len(configs) |->
        IF configs[i].selector = p
        THEN [configs[i] EXCEPT
                !.failureCount = IF configs[i].failureCount > 0
                                 THEN configs[i].failureCount - 1 ELSE 0,
                !.successRate = IF (configs[i].successRate * 11) \div 10 > Scale
                                THEN Scale ELSE (configs[i].successRate * 11) \div 10]
        ELSE configs[i]]

\* C13: recordSuccess(p) changes every entry whose pattern is p, in every
\* category, to failureCount' = max(0, failureCount - 1) and successRate' =
\* min(1, successRate x 1.1), and leaves every other entry as it was.
C13_SuccessUpdatesEveryEntry ==
    lastCall.op = "recordSuccess"
        => categories =
              [c \in 1..Len(lastCall.before) |->
                  [name |-> lastCall.before[c].name,
                   selectors |-> SucceededEntries(lastCall.before[c].selectors, lastCall.arg)]]

\* a recordSuccess of a pattern held in two categories took an entry from
\* failureCount 3 to 2
C13_Witness ==
    /\ lastCall.op = "recordSuccess"
    /\ Cardinality({c \in 1..Len(categories) :
                       FindIndex(categories[c].selectors, lastCall.arg) # 0}) >= 2
    /\ \E c \in 1..Len(categories) :
          \E i \in 1..Len(categories[c].selectors) :
             /\ categories[c].selectors[i].selector = lastCall.arg
             /\ lastCall.before[c].selectors[i].failureCount = 3
             /\ categories[c].selectors[i].failureCount = 2

(***************************************************************************)
(* C14.  addPattern is idempotent.                                         *)
(***************************************************************************)
UniquePatterns(cats) ==
    \A c \in 1..Len(cats) :
        \A i, j \in 1..Len(cats[c].selectors) :
            cats[c].selectors[i].selector = cats[c].selectors[j].selector => i = j

Holds(configs, p) == \E i \in 1..Len(configs) : configs[i].selector = p

\* configs with one more entry at its end: p, successRate 0.5, failureCount 0
InsertedInto(configs, after, p) ==
    /\ Len(after) = Len(configs) + 1
    /\ SubSeq(after, 1, Len(configs)) = configs
    /\ after[Len(after)].selector = p
    /\ after[Len(after)].successRate * 2 = Scale
    /\ after[Len(after)].failureCount = 0
    /\ after[Len(after)].priority >= 1

\* C14: a category never holds two entries with the same pattern; an
\* addPattern(cat, X) with X already in cat changes nothing, and otherwise
\* X is inserted with successRate 0.5 and failureCount 0, in a new category
\* when cat does not exist, and nothing else changes.
C14_AddPatternIdempotent ==
    /\ UniquePatterns(categories)
    /\ lastCall.op = "addSelector" =>
          IF \E c \in 1..Len(lastCall.before) : lastCall.before[c].name = lastCall.category
          THEN /\ Len(categories) = Len(lastCall.before)
               /\ \A c \in 1..Len(lastCall.before) :
                     IF lastCall.before[c].name = lastCall.category
                        /\ ~Holds(lastCall.before[c].selectors, lastCall.arg)
                     THEN /\ categories[c].name = lastCall.category
                          /\ InsertedInto(lastCall.before[c].selectors,
                                          categories[c].selectors, lastCall.arg)
                     ELSE categories[c] = lastCall.before[c]
          ELSE /\ Len(categories) = Len(lastCall.before) + 1
               /\ SubSeq(categories, 1, Len(lastCall.before)) = lastCall.before
               /\ categories[Len(categories)].name = lastCall.category
               /\ InsertedInto(<<>>, categories[Len(categories)].selectors, lastCall.arg)

\* an addPattern of a pattern the category already held, with a health
\* record other than that of a new entry, which was kept
C14_Witness ==
    /\ lastCall.op = "addSelector"
    /\ categories = lastCall.before
    /\ \E c \in 1..Len(categories) :
          /\ categories[c].name = lastCall.category
          /\ \E i \in 1..Len(categories[c].selectors) :
                /\ categories[c].selectors[i].selector = lastCall.arg
                /\ categories[c].selectors[i].successRate * 2 # Scale
                /\ categories[c].selectors[i].failureCount > 0

(***************************************************************************)
(* C15.  updateFromExternalConfig keeps health statistics.                 *)
(***************************************************************************)
\* C15: after updateFromExternalConfig every entry that was in a category
\* is still there, in its place, with the same successRate, failureCount
\* and priority; only patterns the category did not hold are added.
C15_ConfigKeepsHealth ==
    lastCall.op = "updateFromConfig" =>
        /\ Len(categories) >= Len(lastCall.before)
        /\ \A c \in 1..Len(lastCall.before) :
              /\ categories[c].name = lastCall.before[c].name
              /\ Len(categories[c].selectors) >= Len(lastCall.before[c].selectors)
              /\ SubSeq(categories[c].selectors, 1, Len(lastCall.before[c].selectors))
                    = lastCall.before[c].selectors
              /\ \A i \in (Len(lastCall.before[c].selectors) + 1)..Len(categories[c].selectors) :
                    ~Holds(lastCall.before[c].selectors, categories[c].selectors[i].selector)

\* a configuration naming a pattern the category held, with failures on its
\* record, and one it did not hold, which was added
C15_Witness ==
    /\ lastCall.op = "updateFromConfig"
    /\ \E k \in 1..Len(lastCall.arg) :
       \E c \in 1..Len(lastCall.before) :
          /\ lastCall.before[c].name = lastCall.arg[k].name
          /\ Len(categories[c].selectors) > Len(lastCall.before[c].selectors)
          /\ \E i \in 1..Len(lastCall.before[c].selectors) :
                /\ lastCall.before[c].selectors[i].selector \in Range(lastCall.arg[k].selectors)
                /\ lastCall.before[c].selectors[i].failureCount > 0
                /\ lastCall.before[c].selectors[i].successRate * 2 # Scale

(***************************************************************************)
(* C16.  The ranking of getActivePatterns.                                 *)
(***************************************************************************)
\* score of the earlier entry >= score of the later one, for
\* score = successRate x (1 / priority)
DescendingByScore(configs) ==
    \A i \in 1..(Len(configs) - 1) :
        configs[i].successRate * configs[i + 1].priority
            >= configs[i + 1].successRate * configs[i].priority

\* seq is the patterns of a descending arrangement of the active entries
RankedFrom(seq, configs) ==
    \E ranked \in {SortByScore(ActiveConfigs(configs))} :
        /\ seq = SelectorsOf(ranked)
        /\ DescendingByScore(ranked)

\* C16: what getActivePatterns returns is in descending order of score =
\* successRate x (1 / priority), for one category and, with the category
\* omitted, for the entries of all categories in one ranking.
C16_RankedByScore ==
    /\ RankedFrom(getAllActiveSelectors(categories), AllConfigs(categories))
    /\ \A c \in 1..Len(categories) :
          RankedFrom(getCategorySelectors(categories, categories[c].name),
                     categories[c].selectors)

\* after a health update, the ranking over all categories is not the order
\* of insertion, and it holds entries of different scores
C16_Witness ==
    /\ lastCall.op \in {"recordSuccess", "recordFailure"}
    /\ categories # lastCall.before
    /\ getAllActiveSelectors(categories) # SelectorsOf(ActiveConfigs(AllConfigs(categories)))
    /\ Len(getAllActiveSelectors(categories)) >= 3

(***************************************************************************)
(* C17.  The ranges of the health record.                                  *)
(***************************************************************************)
\* C17: in every reachable registry state every entry has
\* 0 <= successRate <= 1 and failureCount >= 0.
C17_HealthInRange ==
    \A config \in Range(AllConfigs(categories)) :
        /\ config.successRate >= 0
        /\ config.successRate <= Scale
        /\ config.failureCount >= 0

\* a recordSuccess met the cap of successRate and the floor of failureCount
C17_Witness ==
    /\ lastCall.op = "recordSuccess"
    /\ \E c \in 1..Len(categories) :
          \E i \in 1..Len(categories[c].selectors) :
             /\ categories[c].selectors[i].selector = lastCall.arg
             /\ (lastCall.before[c].selectors[i].successRate * 11) \div 10 > Scale
             /\ categories[c].selectors[i].successRate = Scale
             /\ lastCall.before[c].selectors[i].failureCount = 0
             /\ categories[c].selectors[i].failureCount = 0

(***************************************************************************)
(* C18.  The score is bounded.                                             *)
(***************************************************************************)
\* C18: for every evidence list, 0 <= scoreEvidence(evidence) <= 1.
C18_ScoreBounded ==
    scored.called => (scored.confidence >= 0 /\ scored.confidence <= Scale)

\* a list of strong tokens whose weights and boost add up to more than 1
C18_Witness ==
    /\ scored.called
    /\ Len(scored.evidence) = MaxEvidence
    /\ \A i \in 1..Len(scored.weights) : scored.weights[i] > 90
    /\ scored.confidence = Scale

(***************************************************************************)
(* C19.  The formula of the score.                                         *)
(***************************************************************************)
\* min(1, 0.7 x max w + 0.3 x (sum of w squared / sum of w)
\*        + min(0.1, 0.03 x strongSignals)), weights in hundredths
ClaimedScore(ws, strongSignals) ==
    LET top == CHOOSE w \in Range(ws) : \A v \in Range(ws) : v <= w
        squares == SeqSum([i \in 1..Len(ws) |-> ws[i] * ws[i]])
        milli == Scale \div 1000
        base == 7 * top * milli + (3 * squares * milli) \div SeqSum(ws)
        boost == IF 3 * strongSignals >= 10 THEN 100 * milli
                 ELSE 30 * strongSignals * milli
    IN  IF base + boost >= Scale THEN Scale ELSE base + boost

\* C19: scoreEvidence is 0 for the empty list and otherwise
\* min(1, 0.7 x max(w_i) + 0.3 x (sum of w_i squared / sum of w_i)
\* + min(0.1, 0.03 x strongSignals)) on the resolved weights of its tokens;
\* the single token 'element:ytp-ad-skip-button' scores 0.93.
C19_ScoreFormula ==
    scored.called =>
        /\ scored.evidence = <<>> => scored.confidence = 0
        /\ scored.evidence # <<>> =>
              scored.confidence =
                 ClaimedScore(scored.weights,
                              Cardinality({i \in 1..Len(scored.evidence) :
                                              IsStrongSignal(scored.evidence[i])}))
        /\ scored.evidence = <<"element:ytp-ad-skip-button">>
              => scored.confidence = (93 * Scale) \div 100

\* the skip-button token scored together with a weaker token: the maximum,
\* the squares and the boost all count
C19_Witness ==
    /\ scored.called
    /\ scored.evidence = <<"element:ytp-ad-skip-button", "detected:periodic-scan">>
    /\ scored.weights = <<90, 50>>
    /\ scored.confidence > (8 * Scale) \div 10
    /\ scored.confidence < (93 * Scale) \div 100

(***************************************************************************)
(* C20.  A token equal to a key of the weight table.                       *)
(***************************************************************************)
\* C20 (as claimed): a token equal to a key of the weight table resolves
\* to that key's weight; 'content:aria-label-domain' resolves to 0.7 and
\* scores 0.7 as a single token.
C20_KeyResolvesToItsWeight ==
    scored.called =>
        /\ \A i \in 1..Len(scored.evidence) :
              \A k \in 1..Len(EVIDENCE_WEIGHTS) :
                 EVIDENCE_WEIGHTS[k].pattern = scored.evidence[i]
                    => scored.weights[i] = EVIDENCE_WEIGHTS[k].w
        /\ scored.evidence = <<"content:aria-label-domain">>
              => (scored.weights = <<70>> /\ scored.confidence = (7 * Scale) \div 10)

(***************************************************************************)
(* C21.  Tokens that are not in the weight table.                          *)
(***************************************************************************)
InTable(e) == \E k \in 1..Len(EVIDENCE_WEIGHTS) : EVIDENCE_WEIGHTS[k].pattern = e

\* C21 (as claimed): every token that is not a key of the weight table
\* resolves to the default weight 0.5, and a list of two such tokens scores
\* 0.5, below the reporting threshold 0.6.
C21_UnknownTokenIsDefault ==
    scored.called =>
        /\ \A i \in 1..Len(scored.evidence) :
              ~InTable(scored.evidence[i]) => scored.weights[i] = DefaultWeight
        /\ (/\ Len(scored.evidence) = 2
            /\ \A i \in 1..2 : ~InTable(scored.evidence[i]))
              => (/\ scored.confidence = (DefaultWeight * Scale) \div 100
                  /\ scored.confidence < ConfidenceThreshold)

(***************************************************************************)
(* C29.  The tokens the boost counts.                                      *)
(***************************************************************************)
\* C29 (as claimed): a token counts towards the boost if and only if its
\* resolved weight, the one used for maxWeight and avgWeight, exceeds 0.8;
\* the boost is 0.03 for each such token, at most 0.1.
C29_BoostCountsResolvedWeights ==
    scored.called =>
        /\ \A i \in 1..Len(scored.evidence) :
              scored.strong[i] <=> scored.weights[i] > StrongWeight
        /\ scored.evidence # <<>> =>
              scored.confidence =
                 ClaimedScore(scored.weights,
                              Cardinality({i \in 1..Len(scored.weights) :
                                              scored.weights[i] > StrongWeight}))

(***************************************************************************)
(* C22.  classify with new evidence on a live cache entry.                 *)
(***************************************************************************)
\* the last classify call found an entry stored less than CacheTimeout ago
FoundLive ==
    /\ classified.called
    /\ classified.before # NoEntry
    /\ classified.at - classified.before.timestamp < CacheTimeout

\* C22 (as claimed): classify(node, E) on a node with an unexpired cached
\* result, where E has a token that is not in the cached evidence, returns
\* a record whose evidence holds every cached token and every token of E,
\* with score and type recomputed from it, and stores it as the node's
\* entry; also when the cached evidence repeats a token.
C22_MergeGrowsEvidence ==
    (/\ FoundLive
     /\ Range(classified.evidence) \ Range(classified.before.evidence) # {})
       => /\ Range(classified.before.evidence) \cup Range(classified.evidence)
                \subseteq Range(classified.result.evidence)
          /\ classified.result.confidence = calculateConfidence(classified.result.evidence)
          /\ classified.result.type =
                classifyAdType(classified.element, classified.result.evidence, videoTime)
          /\ detectionCache[classified.element] = classified.result

(***************************************************************************)
(* C23.  classify without new evidence on a live cache entry.              *)
(***************************************************************************)
\* C23: classify(node, E) on a node with an unexpired cached result, where
\* every token of E is in the cached evidence (or E is empty), returns the
\* cached record and leaves the cache entry as it was, timestamp included.
C23_NothingNewKeepsEntry ==
    (/\ FoundLive
     /\ Range(classified.evidence) \subseteq Range(classified.before.evidence))
       => /\ classified.result = classified.before
          /\ detectionCache[classified.element] = classified.before
          /\ detectionCache[classified.element].timestamp = classified.before.timestamp

\* a later call with a token the entry holds, made after the entry was stored
C23_Witness ==
    /\ FoundLive
    /\ classified.evidence # <<>>
    /\ Range(classified.evidence) \subseteq Range(classified.before.evidence)
    /\ classified.at > classified.before.timestamp
    /\ detectionCache[classified.element] = classified.before

(***************************************************************************)
(* C25.  The order of the rules of classifyAdType.                         *)
(***************************************************************************)
\* the last classifyAdType call: x occurs in some evidence token
TypedEvidenceHas(x) ==
    \E i \in 1..Len(typed.evidence) : Includes(typed.evidence[i], x)

\* x occurs in the element's class or tag
TypedElementHas(x) == Includes(typed.className, x) \/ Includes(typed.tagName, x)

PlayingRule ==
    TypedEvidenceHas("ad-showing") \/ TypedEvidenceHas("ad-interrupting")
       \/ TypedEvidenceHas("getAdState")

OverlayRule == TypedElementHas("overlay") \/ TypedEvidenceHas("overlay")

BannerRule == TypedElementHas("banner") \/ TypedEvidenceHas("banner")

SponsoredRule ==
    TypedElementHas("promoted") \/ TypedEvidenceHas("promoted") \/ TypedEvidenceHas("sparkles")

DisplayRule == TypedElementHas("display") \/ TypedEvidenceHas("display")

NetworkRule == TypedEvidenceHas("network")

\* C25: the rules are applied in a fixed order and the first that matches
\* wins: ad-playing / ad-state evidence gives preroll under 5 seconds of
\* video and midroll otherwise (also without a video), then overlay, banner,
\* promoted or sparkles (sponsored), display (display-ad), network
\* (network-ad); display-ad when no rule matches.
C25_FirstRuleWins ==
    typed.called =>
        /\ PlayingRule =>
              typed.type = IF typed.video >= 0 /\ typed.video < 5 THEN "preroll" ELSE "midroll"
        /\ (~PlayingRule /\ OverlayRule) => typed.type = "overlay"
        /\ (~PlayingRule /\ ~OverlayRule /\ BannerRule) => typed.type = "banner"
        /\ (~PlayingRule /\ ~OverlayRule /\ ~BannerRule /\ SponsoredRule)
              => typed.type = "sponsored"
        /\ (~PlayingRule /\ ~OverlayRule /\ ~BannerRule /\ ~SponsoredRule /\ DisplayRule)
              => typed.type = "display-ad"
        /\ (~PlayingRule /\ ~OverlayRule /\ ~BannerRule /\ ~SponsoredRule /\ ~DisplayRule
              /\ NetworkRule) => typed.type = "network-ad"
        /\ (~PlayingRule /\ ~OverlayRule /\ ~BannerRule /\ ~SponsoredRule /\ ~DisplayRule
              /\ ~NetworkRule) => typed.type = "display-ad"

\* ad-state evidence next to overlay and network evidence on an element
\* whose class says banner, with no video: midroll
C25_Witness ==
    /\ typed.called
    /\ PlayingRule /\ OverlayRule /\ BannerRule /\ NetworkRule
    /\ typed.video = -1
    /\ typed.type = "midroll"

(***************************************************************************)
(* C30.  Expiry of a cache entry.                                          *)
(***************************************************************************)
\* C30: when classify(node, E) is called 2000 ms or more after the node's
\* entry was stored, the cached evidence is ignored: a new record is
\* computed from E alone and replaces the entry.  Within 2000 ms the entry
\* is used: the result holds the cached evidence.
C30_ExpiredEntryIsSuperseded ==
    (classified.called /\ classified.before # NoEntry) =>
        IF classified.at - classified.before.timestamp >= CacheTimeout
        THEN /\ classified.result =
                   createDetectionResult(classified.element, classified.evidence,
                                         videoTime, classified.at)
             /\ detectionCache[classified.element] = classified.result
        ELSE Range(classified.before.evidence) \subseteq Range(classified.result.evidence)

\* a call exactly CacheTimeout after the entry was stored, with evidence
\* that lacks a token of the expired entry
C30_Witness ==
    /\ classified.called
    /\ classified.before # NoEntry
    /\ classified.at - classified.before.timestamp = CacheTimeout
    /\ Range(classified.before.evidence) \ Range(classified.evidence) # {}
    /\ classified.result.evidence = classified.evidence
    /\ classified.result.timestamp = classified.at

(***************************************************************************)
(* C24.  The list run() returns is unique by node.                         *)
(***************************************************************************)
\* the places of a list of detections that hold the first detection of
\* their element
FirstPlaces(detections) ==
    {i \in 1..Len(detections) :
        \A j \in 1..(i - 1) : detections[j].element # detections[i].element}

\* the k-th smallest member of a set of places
PlaceAt(places, k) == CHOOSE i \in places : Cardinality({j \in places : j < i}) = k - 1

\* C24: the list returned by run() holds at most one detection per node,
\* the one appended first for that node during the run, in the order of
\* first occurrence.
C24_FirstPerNode ==
    (lastRun.called /\ ~lastRun.throttled /\ ~lastRun.threw) =>
        /\ \A i, j \in 1..Len(lastRun.kept) :
              i # j => lastRun.kept[i].element # lastRun.kept[j].element
        /\ Len(lastRun.kept) = Cardinality(FirstPlaces(lastRun.appended))
        /\ \A k \in 1..Len(lastRun.kept) :
              lastRun.kept[k] =
                 lastRun.appended[PlaceAt(FirstPlaces(lastRun.appended), k)]

\* one run appended two different detections of one node, and kept others
C24_Witness ==
    /\ lastRun.called /\ ~lastRun.throttled /\ ~lastRun.threw
    /\ Len(lastRun.kept) >= 2
    /\ \E i, j \in 1..Len(lastRun.appended) :
          /\ i < j
          /\ lastRun.appended[i].element = lastRun.appended[j].element
          /\ lastRun.appended[i] # lastRun.appended[j]

(***************************************************************************)
(* C26.  Texts reported as destinations.                                   *)
(***************************************************************************)
\* the sources under which the content script reports https://<text>
TextSources == {"aria-label", "video-player-text"}

\* the text of a destination reported as "https://" \o text
ReportedText(url) == SubSeq(url, Len("https://") + 1, Len(url))

\* C26 (as claimed): a text (an element's aria-label, the player's ad text)
\* is reported as https://<text> only if it passes isValidAdDomain: it
\* contains a dot, ends in an allow-listed suffix, contains no excluded
\* word and no excluded domain, and consists of letters, digits, hyphens
\* and dots only.
C26_OnlyPlausibleTextsReported ==
    \A m \in BagToSet(sent) :
        m.source \in TextSources => isValidAdDomain(ReportedText(m.url))

(***************************************************************************)
(* C27.  Visible-only mode.                                                *)
(***************************************************************************)
\* the elements the callback was invoked for in the last step
EmittedElements == {did.emitted[i][1] : i \in 1..Len(did.emitted)}

\* element n matches a pattern getAllActiveSelectors returns
MatchesActive(n) ==
    \E i \in 1..Len(getAllActiveSelectors(categories)) :
        ElementMatches(n, getAllActiveSelectors(categories)[i])

\* C27: in visible-only mode the callback is never invoked for an element
\* that is not in the visible set at that moment; a full scan attaches only
\* a visibility subscription for such an element when it matches a pattern,
\* and the callback is invoked for it when a visibility notification
\* reports it visible.
C27_OnlyVisibleDetected ==
    visibleOnly =>
        /\ EmittedElements \subseteq visibleElements
        /\ (did.scanned /\ isRunning) =>
              \A n \in attached :
                 (MatchesActive(n) /\ n \notin visibleElements)
                    => (n \in observing /\ n \notin EmittedElements)
        /\ (did.op = "visibility" /\ did.pass.isIntersecting /\ MatchesActive(did.pass.target))
              => did.pass.target \in EmittedElements

\* an element that a scan had deferred is reported visible and the callback
\* is invoked for it, while another matching element stays deferred
C27_Witness ==
    /\ visibleOnly /\ isRunning
    /\ did.op = "visibility" /\ did.pass.isIntersecting
    /\ did.pass.target \in EmittedElements
    /\ \E n \in attached \ visibleElements : n \in observing /\ MatchesActive(n)

(***************************************************************************)
(* C28.  A host without change or visibility notifications.                *)
(***************************************************************************)
\* C28 (as claimed): where the host cannot provide change or visibility
\* notifications, start() still completes without raising and the watcher
\* runs in periodic-rescan-only mode: the periodic timer is armed and the
\* initial full scan has run.
C28_DegradesToPeriodicScan ==
    (did.op = "start" /\ startOutcome.host # FullHost) =>
        /\ ~startOutcome.raised
        /\ isRunning
        /\ scanIntervalId # 0
        /\ \E g \in Generations : intervalT[g].armed
        /\ did.scanned

(***************************************************************************)
(* C31.  The evidence of a candidate of the pattern-matching stage.        *)
(***************************************************************************)
\* the tokens a node can contribute itself: one per catalog pattern that
\* matches it, and its attribute and class tokens
OwnTokens(n) ==
    {"selector:" \o p : p \in {q \in Patterns : ~IsMalformed(q) /\ ElementMatches(n, q)}}
        \cup Range(ElementEvidenceCache[n])

\* C31 (as claimed): a candidate the pattern-matching stage appends in a
\* run carries only evidence derived from its own node: the tokens of the
\* patterns that matched that node and that node's attribute and class
\* tokens; tokens recorded for other nodes or patterns earlier in the run
\* are not part of it.
C31_CandidateEvidenceIsOwn ==
    lastRun.called =>
        \A i \in 1..Len(lastRun.appended) :
            Range(lastRun.appended[i].evidence) \subseteq OwnTokens(lastRun.appended[i].element)

(***************************************************************************)
(* C32.  An element the watcher alone delivers.                            *)
(***************************************************************************)
\* the cache entry of n is present and not expired
HasLiveEntry(n) ==
    detectionCache[n] # NoEntry /\ now - detectionCache[n].timestamp < CacheTimeout

\* the cached evidence of n merged with the watcher's token
MergedWithDetected(n, reason) ==
    Dedupe(detectionCache[n].evidence \o <<"detected:" \o reason>>)

\* the watcher's callback for element n, as the claim describes it
WatcherDeliveryAsClaimed(n, reason) ==
    /\ ~HasLiveEntry(n) =>
           /\ detectionCache'[n].evidence = <<"detected:" \o reason>>
           /\ detectionCache'[n].confidence = Scale \div 2
           /\ sent' = sent
           /\ attempted' = attempted
    /\ sent' # sent =>
           /\ HasLiveEntry(n)
           /\ calculateConfidence(MergedWithDetected(n, reason)) >= ConfidenceThreshold

\* C32 (as claimed): an element delivered only by the watcher's callback
\* (its evidence is the single token 'detected:<reason>' and the node has
\* no unexpired cache entry) scores 0.5 and produces no report; a watcher
\* detection leads to a report only when the node has an unexpired cached
\* classification whose merged evidence scores at least 0.6.
C32_WatcherAloneReportsNothing ==
    [][\A n \in {m \in Nodes : NodeInfo[m].html} :
           ElementDetected(n, DrivenReason) => WatcherDeliveryAsClaimed(n, DrivenReason)]_vars


\* the watcher delivered adBox alone (0.5, nothing reported for it) and, in
\* the last step, feedAd while its entry was live: the merged record was
\* handed on and reported
C32_Witness ==
    /\ detectionCache["adBox"] # NoEntry
    /\ detectionCache["adBox"].evidence = <<"detected:" \o DrivenReason>>
    /\ detectionCache["adBox"].confidence = Scale \div 2
    /\ detectionCache["feedAd"] # NoEntry
    /\ Len(detectionCache["feedAd"].evidence) > 1
    /\ ("detected:" \o DrivenReason) \in Range(detectionCache["feedAd"].evidence)
    /\ lastRun = NoRun
    /\ handedMin = detectionCache["feedAd"].confidence
    /\ handedMin < Scale
    /\ \E m \in BagToSet(sent) : m.confidence = handedMin
    /\ \A m \in BagToSet(sent) : m.confidence # Scale \div 2

(***************************************************************************)
(* C33.  A batch pending in the debounce window across stop().             *)
(***************************************************************************)
\* C33 (as claimed): a change batch that was waiting in the debounce
\* window when stop() was called is never processed, also when start() is
\* called again before the window elapses: the pass of a debounce closure
\* whose subscription has been released invokes no detection callback and
\* makes no pattern health update.
C33_ReleasedBatchIsDropped ==
    (did.op = "debounce" /\ ~did.pass.live) =>
        /\ did.emitted = <<>>
        /\ did.healthCalls = 0

(***************************************************************************)
(* C34.  The session dedup key.                                            *)
(***************************************************************************)
\* C34: the key of logAd is injective on the (url, source) pairs logAd is
\* called with: two attempts with different pairs never have the same
\* key, so an attempt is suppressed only when a message for its own pair
\* was sent before.
C34_KeyIsInjective ==
    /\ \A p \in attempted : \A q \in attempted :
           UrlKey(p[1], p[2]) = UrlKey(q[1], q[2]) => p = q
    /\ suppressed # <<>> => MessagesFor(suppressed) # {}

\* one URL was attempted under two sources, a second URL under one of
\* them, and a repeated attempt was suppressed
C34_Witness ==
    /\ suppressed # <<>>
    /\ \E p \in attempted : \E q \in attempted : p[1] = q[1] /\ p[2] # q[2]
    /\ \E p \in attempted : \E q \in attempted : p[1] # q[1] /\ p[2] = q[2]

(***************************************************************************)
(* C35.  Throttled calls of run() leave no trace.                          *)
(***************************************************************************)
\* C35: a throttled run() changes nothing (lastRunTime, the pattern health
\* records and the classification cache are as before the call), so
\* lastRunTime is always the start of the last run that was not throttled,
\* and a run() called at least 100 ms after that start executes the
\* stages, however many throttled calls came in between.
C35_ThrottledRunLeavesNoTrace ==
    /\ [](lastRunTime = lastExec)
    /\ []((lastRun.called /\ lastRun.sincePrev >= MinInterval)
              => (~lastRun.throttled /\ lastRun.executed # <<>>))
    /\ [][(RunPipeline /\ lastRun'.throttled)
              => UNCHANGED <<lastRunTime, categories, detectionCache>>]_vars

\* a throttled run() 50 ms after an executed one, on a page that has gained
\* an element the stages would have classified
C35_Witness ==
    /\ lastRun.called
    /\ lastRun.throttled
    /\ lastRun.sincePrev = TimeStep
    /\ lastExec > 0
    /\ \E n \in attached :
           /\ NodeInfo[n].html
           /\ detectionCache[n] = NoEntry
           /\ \E selector \in Range(getAllActiveSelectors(categories)) :
                  ~IsMalformed(selector) /\ ElementMatches(n, selector)

(***************************************************************************)
(* C36.  Exclusion by failure count is absorbing.                          *)
(***************************************************************************)
\* the places <<category index, entry index>> of the entries of cats
\* excluded by their failure count
ExcludedPlaces(cats) ==
    UNION {{<<c, i>> : i \in {k \in 1..Len(cats[c].selectors) :
                                 cats[c].selectors[k].failureCount >= MaxFailures}} :
           c \in 1..Len(cats)}

\* C36: in a catalog where each pattern text occurs once, an entry whose
\* failureCount has reached 5 is not returned by getAllActiveSelectors,
\* and no watcher scan, change processing, matchesAnySelector call or
\* pipeline run changes its health record again.
C36_ExclusionIsAbsorbing ==
    /\ [](\A place \in ExcludedPlaces(categories) :
              categories[place[1]].selectors[place[2]].selector
                  \notin Range(getAllActiveSelectors(categories)))
    /\ [][\A place \in ExcludedPlaces(categories) :
              /\ place[1] <= Len(categories')
              /\ place[2] <= Len(categories'[place[1]].selectors)
              /\ categories'[place[1]].selectors[place[2]]
                     = categories[place[1]].selectors[place[2]]]_vars

\* the rejected pattern has failed five times in matchesAnySelector alone
\* (its successRate is still the one it was added with), and the last step was a
\* pipeline run that executed its stages on a page with ad elements
C36_Witness ==
    /\ \E place \in ExcludedPlaces(categories) :
           /\ categories[place[1]].selectors[place[2]].selector = BadPattern
           /\ categories[place[1]].selectors[place[2]].successRate = Scale
    /\ lastRun.called
    /\ ~lastRun.throttled
    /\ ~lastRun.healthSame
    /\ isRunning

(***************************************************************************)
(* C37.  An accepted ad stays in the log.                                  *)
(***************************************************************************)
\* C37 (as claimed): an ad the background worker accepted (logAdElement
\* answered with success) is in adLog until the cap evicts it or
\* clearAdLog removes it, in every interleaving of the messages with the
\* completion of the initial read of the stored log.
C37_AcceptedStaysLogged ==
    expected \subseteq LoggedUrls(adLog)

(***************************************************************************)
(* C38.  The log is capped and free of duplicates.                         *)
(***************************************************************************)
\* C38: after any sequence of logAdElement and clearAdLog messages, the
\* stored log having distinct URLs and at most as many entries as the cap,
\* adLog has at most as many entries as the cap and no two entries with
\* the same destinationUrl; a message whose cleaned URL is already logged,
\* or is filtered out, leaves adLog unchanged.
C38_LogIsCappedAndDistinct ==
    /\ [](/\ Len(adLog) <= LogLimit
          /\ Cardinality(LoggedUrls(adLog)) = Len(adLog))
    /\ [][\A adInfo \in Messages :
              (/\ LogAdElement(adInfo)
               /\ \/ CleanedCache[adInfo.url] = NoValue
                  \/ CleanedCache[adInfo.url] \in LoggedUrls(adLog))
              => /\ adLog' = adLog
                 /\ ~reply'.success]_vars

\* the log is full, an accepted entry has been evicted by the cap, and the
\* last message, whose URL cleans to a logged one, was refused
C38_Witness ==
    /\ Len(adLog) = LogLimit
    /\ Cardinality(expected) = LogLimit
    /\ StoredAtStartup[1].destinationUrl \notin LoggedUrls(adLog)
    /\ ~loadPending
    /\ reply.action = "logAdElement"
    /\ ~reply.success
    /\ reply.url # reply.cleaned
    /\ reply.cleaned \in LoggedUrls(adLog)

(***************************************************************************)
(* C39.  The checks of the video player observer.                          *)
(***************************************************************************)
\* C39 (as claimed): on each check the callback is invoked if and only if
\* an ad is playing (the evidence is not empty) or the playing state
\* differs from the state at the previous notification; and after any
\* sequence of start() and stop() calls at most one check timer is active.
C39_CheckNotifiesChange ==
    /\ checked.op = "check" =>
           (checked.invoked <=>
                (checked.evidence # <<>> \/ (checked.evidence # <<>>) # checked.before))
    /\ Cardinality(checkTimers) <= 1

\* the same for the checks that find the player element
C39_CheckWithPlayer ==
    /\ (checked.op = "check" /\ checked.found) =>
           (checked.invoked <=>
                (checked.evidence # <<>> \/ (checked.evidence # <<>>) # checked.before))
    /\ (checked.op = "check" /\ ~checked.found) =>
           (~checked.invoked /\ lastState = checked.before)
    /\ Cardinality(checkTimers) <= 1


(***************************************************************************)
(* C40.  Every queued operation is eventually executed.                    *)
(***************************************************************************)
\* the reads of one flush come before its writes
ReadsBeforeWrites ==
    \A i, j \in 1..Len(flushOrder) :
        (flushOrder[i][1] = "write" /\ flushOrder[j][1] = "read") => j < i

\* C40 (as claimed): every operation queued with read or write, also one
\* queued by another operation while a flush is running, is eventually
\* executed by a flush with no further read or write call; and within one
\* flush the reads run before the writes.
C40_QueuedIsEventuallyRun ==
    /\ \A id \in OperationIds :
           (id \in IdsOf(pendingReads) \cup IdsOf(pendingWrites)) ~> (id \in batchRun)
    /\ []ReadsBeforeWrites

\* the same for the operations queued from outside a flush
C40_QueuedOutsideIsRun ==
    /\ \A id \in 1..MaxBatchCalls :
           (id \in IdsOf(pendingReads) \cup IdsOf(pendingWrites)) ~> (id \in batchRun)
    /\ []ReadsBeforeWrites

====
